---- MODULE Spec2Model ----
(***************************************************************************)
(* Model of the go-datastore transaction facade and model operations.      *)
(*                                                                         *)
(* One client (engine tag, configuration, migrated-model registry) and the *)
(* one Transaction its caller currently holds are modelled together with   *)
(* an abstract backend driver.  The driver is the environment: each driver *)
(* call returns one of the outcomes the driver can produce, chosen         *)
(* nondeterministically, and the facade code reacts to it exactly as the   *)
(* source does.  A gorm result handle is modelled by the error of the call *)
(* that produced it; error values are abstract names.                      *)
(***************************************************************************)
EXTENDS Integers, Sequences, FiniteSets, TLC

(***************************************************************************)
(* Bounds of the model.                                                    *)
(***************************************************************************)
MaxOps == 3            \* facade calls made on one Transaction
MaxRowsAffected == 1   \* largest RowsAffected a driver result reports
NumModelTypes == 2     \* distinct model types handed to AutoMigrateDatabase
MaxModels == 2         \* models in one AutoMigrateDatabase call
MaxPage == 1           \* largest QueryParams.Page
MaxPageSize == 1       \* largest QueryParams.PageSize
MaxIncrement == 1      \* largest stored counter value and increment
MaxConcCalls == 2      \* calls the concurrent callers make in all

(***************************************************************************)
(* Values.                                                                 *)
(***************************************************************************)
Nil == "nil"
DriverErrors == {"E1", "E2"}
Engines == {"MySQL", "PostgreSQL", "SQLite", "MongoDB", "None"}

\* engine.go (not in the sources): the three relational engines
IsSQLEngine(e) == e \in {"MySQL", "PostgreSQL", "SQLite"}

VARIABLES
    engine,             \* c.options.engine
    mongoTransactions,  \* c.options.mongoDBConfig.Transactions
    autoMigrate,        \* c.options.autoMigrate
    migratedModels,     \* c.options.migratedModels
    tx,                 \* the Transaction the caller holds
    drv,                \* backend state behind tx.sqlTx / tx.mongoTx
    hist,               \* what has happened to tx so far (observer)
    inFn,               \* TRUE while the callback of NewTx is running
    last,               \* the most recent call: inputs, driver calls, result
    row,                \* the stored row that concurrent calls work on
    rowLock,            \* 0, or the caller whose transaction holds the write lock
    procs,              \* concurrent callers: position and locals of their call
    incLog              \* the IncrementModel calls that have returned (observer)

vars == <<engine, mongoTransactions, autoMigrate, migratedModels,
          tx, drv, hist, inFn, last, row, rowLock, procs, incLog>>

concVars == <<row, rowLock, procs, incLog>>

clientVars == <<engine, mongoTransactions, autoMigrate>>

(***************************************************************************)
(* Transaction (transaction.go).                                           *)
(***************************************************************************)
\* type Transaction struct: `present` is FALSE while the caller holds none
Transaction(hasSQL, hasMongo) ==
    [present |-> TRUE, committed |-> FALSE, rowsAffected |-> 0,
     sqlTx |-> hasSQL, mongoTx |-> hasMongo]

NoTransaction ==
    [present |-> FALSE, committed |-> FALSE, rowsAffected |-> 0,
     sqlTx |-> FALSE, mongoTx |-> FALSE]

\* backend transaction behind the handle: state, the handle's Error field,
\* rows written but not committed, rows made visible by a commit
Backend(st, e) == [state |-> st, err |-> e, pending |-> 0, visible |-> 0]

NoBackend == Backend("none", Nil)

FreshHist(b) ==
    [ops |-> 0, begun |-> b, commitReturnedOK |-> FALSE, rolledBack |-> FALSE,
     nCommit |-> 0, nCommitOK |-> 0, nRollback |-> 0]

DriverCall(c, r) == [c |-> c, r |-> r]

\* func (tx *Transaction) CanCommit() bool
CanCommit(t) == ~t.committed /\ (t.sqlTx \/ t.mongoTx)

(***************************************************************************)
(* The driver under the handle.  database/sql: a transaction is finished   *)
(* by the first Commit or Rollback, whatever that call returns; a call on  *)
(* a finished transaction fails and changes nothing.  gorm: Commit() and   *)
(* Rollback() return the handle they were called on, after adding the      *)
(* call's error to the handle's Error field.                               *)
(***************************************************************************)
\* gorm AddError: the first error is kept as it is; a later one is joined to
\* the text of what was there
AddError(cur, e) ==
    IF e = Nil THEN cur
    ELSE IF cur = Nil THEN e
    ELSE cur \o "; " \o e

\* error of tx.sqlTx.Commit(); o is the outcome the driver picks when active
SQLCommitError(d, o) ==
    IF d.state = "active" THEN o
    ELSE IF d.state = "failed" THEN "ErrInvalidTransaction"
    ELSE "ErrTxDone"

\* the handle and its transaction after tx.sqlTx.Commit()
SQLCommitBackend(d, o) ==
    LET e == AddError(d.err, SQLCommitError(d, o))
    IN  IF d.state # "active" THEN [d EXCEPT !.err = e]
        ELSE IF o = Nil
        THEN [d EXCEPT !.state = "committed", !.visible = d.pending, !.pending = 0]
        ELSE [d EXCEPT !.state = "aborted", !.pending = 0, !.err = e]

\* error of tx.sqlTx.Rollback() (the facade ignores it)
SQLRollbackError(d) ==
    IF d.state = "active" THEN Nil
    ELSE IF d.state = "failed" THEN "ErrInvalidTransaction"
    ELSE "ErrTxDone"

\* the handle and its transaction after tx.sqlTx.Rollback()
SQLRollbackBackend(d) ==
    IF d.state = "active" THEN [d EXCEPT !.state = "aborted", !.pending = 0]
    ELSE [d EXCEPT !.err = AddError(d.err, SQLRollbackError(d))]

\* tx.mongoTx: CommitTransaction / AbortTransaction
MongoCommitError(d, o) == IF d.state = "active" THEN o ELSE "ErrSessionDone"

MongoCommitBackend(d, o) ==
    IF d.state = "active" /\ o = Nil
    THEN [d EXCEPT !.state = "committed", !.visible = d.pending, !.pending = 0]
    ELSE d

MongoAbortError(d) == IF d.state = "active" THEN Nil ELSE "ErrSessionDone"

MongoAbortBackend(d) ==
    IF d.state = "active" THEN [d EXCEPT !.state = "aborted", !.pending = 0] ELSE d

(***************************************************************************)
(* func (tx *Transaction) Rollback() error                                 *)
(* Result: the Transaction, the backend, the returned error and the driver *)
(* calls that were issued.                                                 *)
(***************************************************************************)
\* mutant: Rollback forgets the relational handle
RollbackSkipsSQL(t, d) ==
    IF t.mongoTx
    THEN [tx |-> t, drv |-> MongoAbortBackend(d), ret |-> MongoAbortError(d),
          calls |-> <<DriverCall("abort", MongoAbortError(d))>>]
    ELSE [tx |-> t, drv |-> d, ret |-> Nil, calls |-> <<>>]

\* a variant that resets the Transaction's own fields
RollbackResetsFields(t, d) ==
    LET d1 == IF t.sqlTx THEN SQLRollbackBackend(d) ELSE d
        c1 == IF t.sqlTx THEN <<DriverCall("rollback", SQLRollbackError(d))>> ELSE <<>>
        t1 == [t EXCEPT !.committed = FALSE, !.rowsAffected = 0]
    IN  IF t.mongoTx
        THEN [tx |-> t1, drv |-> MongoAbortBackend(d1), ret |-> MongoAbortError(d1),
              calls |-> c1 \o <<DriverCall("abort", MongoAbortError(d1))>>]
        ELSE [tx |-> t1, drv |-> d1, ret |-> Nil, calls |-> c1]

Rollback(t, d) ==
    LET d1 == IF t.sqlTx THEN SQLRollbackBackend(d) ELSE d
        c1 == IF t.sqlTx THEN <<DriverCall("rollback", SQLRollbackError(d))>> ELSE <<>>
    IN  IF t.mongoTx
        THEN [tx |-> t, drv |-> MongoAbortBackend(d1), ret |-> MongoAbortError(d1),
              calls |-> c1 \o <<DriverCall("abort", MongoAbortError(d1))>>]
        ELSE [tx |-> t, drv |-> d1, ret |-> Nil, calls |-> c1]

(***************************************************************************)
(* func (tx *Transaction) Commit() error                                   *)
(* o: outcome of the driver commit on an active backend; n: RowsAffected   *)
(* of the commit result.                                                   *)
(***************************************************************************)
\* result is the handle itself: result.Error is read after result.Rollback()
CommitSQL(t, d, o, n) ==
    LET e == SQLCommitError(d, o)
        d1 == SQLCommitBackend(d, o)
        d2 == SQLRollbackBackend(d1)
    IN  IF d1.err # Nil
        THEN [tx |-> t, drv |-> d2, ret |-> d2.err, returned |-> TRUE,
              calls |-> <<DriverCall("commit", e),
                          DriverCall("rollback", SQLRollbackError(d1))>>]
        ELSE [tx |-> [t EXCEPT !.committed = TRUE, !.rowsAffected = n],
              drv |-> d1, ret |-> Nil, returned |-> FALSE,
              calls |-> <<DriverCall("commit", Nil)>>]

CommitMongo(t, d, o) ==
    LET e == MongoCommitError(d, o)
    IN  IF e # Nil
        THEN [tx |-> t, drv |-> MongoCommitBackend(d, o), ret |-> e,
              calls |-> <<DriverCall("commitTransaction", e)>>]
        ELSE [tx |-> [t EXCEPT !.committed = TRUE, !.rowsAffected = 1],
              drv |-> MongoCommitBackend(d, o), ret |-> Nil,
              calls |-> <<DriverCall("commitTransaction", Nil)>>]

\* a variant that marks a Transaction without handles as committed
CommitMarksEmpty(t, d, o, n) ==
    IF t.committed
    THEN [tx |-> t, drv |-> d, ret |-> Nil, calls |-> <<>>]
    ELSE IF ~t.sqlTx /\ ~t.mongoTx
    THEN [tx |-> [t EXCEPT !.committed = TRUE], drv |-> d, ret |-> Nil, calls |-> <<>>]
    ELSE IF t.sqlTx
    THEN LET s == CommitSQL(t, d, o, n)
         IN  [tx |-> s.tx, drv |-> s.drv, ret |-> s.ret, calls |-> s.calls]
    ELSE CommitMongo(t, d, o)

\* mutant: Commit without the "have we already committed?" guard
CommitNoGuard(t, d, o, n) ==
    IF ~t.sqlTx /\ ~t.mongoTx
    THEN [tx |-> t, drv |-> d, ret |-> Nil, calls |-> <<>>]
    ELSE IF t.sqlTx
    THEN LET s == CommitSQL(t, d, o, n)
         IN  [tx |-> s.tx, drv |-> s.drv, ret |-> s.ret, calls |-> s.calls]
    ELSE CommitMongo(t, d, o)

Commit(t, d, o, n) ==
    IF t.committed
    THEN [tx |-> t, drv |-> d, ret |-> Nil, calls |-> <<>>]
    ELSE IF ~t.sqlTx /\ ~t.mongoTx
    THEN [tx |-> t, drv |-> d, ret |-> Nil, calls |-> <<>>]
    ELSE LET s == IF t.sqlTx THEN CommitSQL(t, d, o, n)
                  ELSE [tx |-> t, drv |-> d, ret |-> Nil, returned |-> FALSE,
                        calls |-> <<>>]
         IN  IF s.returned \/ ~t.mongoTx
             THEN [tx |-> s.tx, drv |-> s.drv, ret |-> s.ret, calls |-> s.calls]
             ELSE LET m == CommitMongo(s.tx, s.drv, o)
                  IN  [tx |-> m.tx, drv |-> m.drv, ret |-> m.ret,
                       calls |-> s.calls \o m.calls]

(***************************************************************************)
(* Observer bookkeeping.                                                   *)
(***************************************************************************)
IsCommitCall(c) == c.c \in {"commit", "commitTransaction"}
IsCommitOK(c) == IsCommitCall(c) /\ c.r = Nil
IsRollbackCall(c) == c.c \in {"rollback", "abort"}

CommitCalls(calls) == Cardinality({i \in DOMAIN calls : IsCommitCall(calls[i])})
CommitOKs(calls) == Cardinality({i \in DOMAIN calls : IsCommitOK(calls[i])})
RollbackCalls(calls) == Cardinality({i \in DOMAIN calls : IsRollbackCall(calls[i])})

Observe(h, calls) ==
    [h EXCEPT !.ops = h.ops + 1,
              !.nCommit = h.nCommit + CommitCalls(calls),
              !.nCommitOK = h.nCommitOK + CommitOKs(calls),
              !.nRollback = h.nRollback + RollbackCalls(calls)]

Snapshot == [tx |-> tx, drv |-> drv, hist |-> hist, migrated |-> migratedModels]

NoArg == [none |-> TRUE]

Call(op, arg, ret, calls) ==
    [op |-> op, arg |-> arg, ret |-> ret, calls |-> calls, pre |-> Snapshot]

(***************************************************************************)
(* func (c *Client) NewRawTx()                                            *)
(* b: the error of sessionDb.Begin() (kept in the handle's Error field).   *)
(***************************************************************************)
\* c.options.db != nil: the client was built for a relational engine
HasDB(e) == IsSQLEngine(e)

\* a variant without the check of mongoDBConfig.Transactions
NewRawTxNoMongoCheck(e, mt, b) ==
    IF HasDB(e)
    THEN [ok |-> TRUE, tx |-> Transaction(TRUE, FALSE), ret |-> Nil,
          drv |-> Backend(IF b = Nil THEN "active" ELSE "failed", b),
          calls |-> <<DriverCall("begin", b)>>]
    ELSE [ok |-> TRUE, tx |-> Transaction(FALSE, FALSE), ret |-> Nil,
          drv |-> NoBackend, calls |-> <<>>]

NewRawTx(e, mt, b) ==
    IF HasDB(e)
    THEN [ok |-> TRUE, tx |-> Transaction(TRUE, FALSE), ret |-> Nil,
          drv |-> Backend(IF b = Nil THEN "active" ELSE "failed", b),
          calls |-> <<DriverCall("begin", b)>>]
    ELSE IF mt
    THEN [ok |-> FALSE, tx |-> NoTransaction, ret |-> "ErrNotImplemented",
          drv |-> NoBackend, calls |-> <<>>]
    ELSE [ok |-> TRUE, tx |-> Transaction(FALSE, FALSE), ret |-> Nil,
          drv |-> NoBackend, calls |-> <<>>]

(***************************************************************************)
(* func (c *Client) NewTx(ctx, fn) error                                   *)
(* NewTxBegin is the part that runs before fn: ok says whether fn is       *)
(* invoked; s is the error of starting the document session transaction.   *)
(* NewTxReturn is the part that runs after fn has returned v.              *)
(***************************************************************************)
NewTxBegin(e, mt, b, s) ==
    IF HasDB(e)
    THEN [ok |-> TRUE, tx |-> Transaction(TRUE, FALSE), ret |-> Nil,
          drv |-> Backend(IF b = Nil THEN "active" ELSE "failed", b),
          calls |-> <<DriverCall("begin", b)>>]
    ELSE IF mt
    THEN IF s # Nil
         THEN [ok |-> FALSE, tx |-> NoTransaction, ret |-> s, drv |-> NoBackend,
               calls |-> <<DriverCall("startTransaction", s)>>]
         ELSE [ok |-> TRUE, tx |-> Transaction(FALSE, TRUE), ret |-> Nil,
               drv |-> Backend("active", Nil),
               calls |-> <<DriverCall("startTransaction", Nil)>>]
    ELSE [ok |-> TRUE, tx |-> Transaction(FALSE, FALSE), ret |-> Nil,
          drv |-> NoBackend, calls |-> <<>>]

\* mutant: NewTx rolls back for the caller when fn fails
NewTxReturnAutoRollback(t, d, v) ==
    IF v = Nil THEN [tx |-> t, drv |-> d, ret |-> v, calls |-> <<>>]
    ELSE [tx |-> t, drv |-> Rollback(t, d).drv, ret |-> v, calls |-> Rollback(t, d).calls]

NewTxReturn(t, d, v) == [tx |-> t, drv |-> d, ret |-> v, calls |-> <<>>]

(***************************************************************************)
(* func (c *Client) SaveModel(ctx, model, tx, newRecord, commitTx) error   *)
(* w: what the driver's Create / Save does (nil, an error, or a panic);    *)
(* o, n: outcome and RowsAffected of the driver commit.                    *)
(***************************************************************************)
Panic == "panic"

\* tx.sqlTx.Omit(clause.Associations).Create(model) / .Save(model)
SQLWriteError(d, w) ==
    IF w = Panic THEN Panic
    ELSE IF d.state = "active" THEN w
    ELSE IF d.state = "failed" THEN d.err
    ELSE "ErrTxDone"

SQLWriteBackend(d, w) ==
    IF d.state = "active" /\ w = Nil THEN [d EXCEPT !.pending = @ + 1] ELSE d

\* mongodb.go (not in the sources): insert or replace by ID, inside the
\* session transaction when the Transaction carries one
saveWithMongo(t, d, w) ==
    [tx |-> t, ret |-> w, panicked |-> FALSE, rollbacks |-> 0, commits |-> 0,
     drv |-> IF w # Nil THEN d
             ELSE IF t.mongoTx /\ d.state = "active"
                  THEN [d EXCEPT !.pending = @ + 1]
                  ELSE [d EXCEPT !.visible = @ + 1],
     calls |-> <<DriverCall(IF t.mongoTx THEN "mongoSaveInSession" ELSE "mongoSave", w)>>]

\* the deferred recover(): log, tx.Rollback(); the function then returns the
\* zero value of its unnamed error result
SaveRecovered(t, d, calls) ==
    LET r == Rollback(t, d)
    IN  [tx |-> r.tx, drv |-> r.drv, ret |-> Nil, panicked |-> TRUE,
         rollbacks |-> 1, commits |-> 0, calls |-> calls \o r.calls]

\* rollbacks / commits: how often the body called tx.Rollback() / tx.Commit()
SaveModel(e, t, d, newRecord, commitTx, w, o, n) ==
    IF e = "MongoDB" THEN saveWithMongo(t, d, IF w = Panic THEN Nil ELSE w)
    ELSE IF ~IsSQLEngine(e)
    THEN [tx |-> t, drv |-> d, ret |-> "ErrUnsupportedEngine", panicked |-> FALSE,
          rollbacks |-> 0, commits |-> 0, calls |-> <<>>]
    ELSE IF ~t.sqlTx THEN SaveRecovered(t, d, <<>>)
    ELSE IF d.err # Nil
    THEN [tx |-> t, drv |-> d, ret |-> d.err, panicked |-> FALSE,
          rollbacks |-> 0, commits |-> 0, calls |-> <<>>]
    ELSE LET we == SQLWriteError(d, w)
             d1 == SQLWriteBackend(d, w)
             wc == <<DriverCall(IF newRecord THEN "create" ELSE "save", we)>>
         IN  IF we = Panic THEN SaveRecovered(t, d, wc)
             ELSE IF we # Nil
             THEN LET r == Rollback(t, d1)
                  IN  [tx |-> r.tx, drv |-> r.drv, ret |-> we, panicked |-> FALSE,
                       rollbacks |-> 1, commits |-> 0, calls |-> wc \o r.calls]
             ELSE IF commitTx
             THEN LET c == Commit(t, d1, o, n)
                  IN  [tx |-> c.tx, drv |-> c.drv, ret |-> c.ret, panicked |-> FALSE,
                       rollbacks |-> 0, commits |-> 1, calls |-> wc \o c.calls]
             ELSE [tx |-> t, drv |-> d1, ret |-> Nil, panicked |-> FALSE,
                   rollbacks |-> 0, commits |-> 0, calls |-> wc]

(***************************************************************************)
(* Model operations (models.go).  Each result carries the returned error   *)
(* and the driver calls issued; ret = Panic is a panic that leaves the     *)
(* operation.                                                              *)
(***************************************************************************)
\* a variant that reads only the error of the result
checkResultErrorOnly(e, rows) ==
    IF e # Nil THEN (IF e = "ErrRecordNotFound" THEN "ErrNoResults" ELSE e)
    ELSE Nil

\* func checkResult(result *gorm.DB) error
checkResult(e, rows) ==
    IF e # Nil THEN (IF e = "ErrRecordNotFound" THEN "ErrNoResults" ELSE e)
    ELSE IF rows = 0 THEN "ErrNoResults"
    ELSE Nil

\* outcomes of a driver query: its error and its RowsAffected
QueryErrors == {Nil, "ErrRecordNotFound"} \cup DriverErrors

\* c.CustomWhere(&gtx, conditions, engine) followed by the driver query;
\* cw is "none" (no conditions), "ok" or "panic" (processConditions panics)
WhereThenQuery(cw, call, e, rows) ==
    IF cw = "panic" THEN [ret |-> Panic, calls |-> <<>>]
    ELSE [ret |-> checkResult(e, rows), calls |-> <<DriverCall(call, e)>>]

\* mongodb.go (not in the sources): the document engine's own path
withMongo(call, e) ==
    [ret |-> IF e = "ErrRecordNotFound" THEN "ErrNoResults" ELSE e,
     calls |-> <<DriverCall(call, e)>>]

Unsupported == [ret |-> "ErrUnsupportedEngine", calls |-> <<>>]

\* func (c *Client) GetModel(ctx, model, conditions, timeout, forceWriteDB)
GetModel(en, cw, forceWriteDB, e, rows) ==
    IF en = "MongoDB" THEN withMongo("mongoFind", e) @@ [writer |-> FALSE]
    ELSE IF ~IsSQLEngine(en) THEN Unsupported @@ [writer |-> FALSE]
    ELSE WhereThenQuery(cw, "find", e, rows)
           @@ [writer |-> forceWriteDB /\ en \in {"MySQL", "PostgreSQL"}]

(***************************************************************************)
(* QueryParams and GetModels / find.  A string is a sequence of letters,   *)
(* each lower or upper case.                                               *)
(***************************************************************************)
Word(letters, uppers) ==
    [i \in 1..Len(letters) |-> [c |-> letters[i], upper |-> i \in uppers]]

\* strings.ToLower
ToLower(w) == [i \in DOMAIN w |-> [w[i] EXCEPT !.upper = FALSE]]

SortDesc == Word(<<"d", "e", "s", "c">>, {})
defaultPageSize == 20

\* A Go int (64 bits) is a record [hi, lo] that stands for hi * 2^62 + lo,
\* with lo small.  Wrap64 reduces modulo 2^64 into -2^63 .. 2^63 - 1: hi is
\* taken modulo 4, and two units of 2^62 are -2^63 unless lo is negative.
I64(n) == [hi |-> 0, lo |-> n]
Wrap64(hi, lo) ==
    LET m == hi % 4
    IN  [hi |-> IF m = 3 THEN -1
                ELSE IF m = 2 THEN (IF lo < 0 THEN 2 ELSE -2)
                ELSE m,
         lo |-> lo]
\* a - 1 and a * b in int arithmetic; 2^62 * 2^62 is 0 modulo 2^64
Dec64(a) == Wrap64(a.hi, a.lo - 1)
Mul64(a, b) == Wrap64(a.hi * b.lo + b.hi * a.lo, a.lo * b.lo)
Positive64(a) == a.hi > 0 \/ (a.hi = 0 /\ a.lo > 0)
Negative64(a) == a.hi < 0 \/ (a.hi = 0 /\ a.lo < 0)
\* math.MaxInt64 = 2^63 - 1
MaxInt64 == [hi |-> 2, lo |-> -1]

NilParams == [isNil |-> TRUE]

QueryParams(page, size, field, dir) ==
    [isNil |-> FALSE, Page |-> page, PageSize |-> size, OrderByField |-> field,
     SortDirection |-> dir]

\* func (c *Client) find(ctx, result, conditions, queryParams, ...)
find(q, cw, e, rows) ==
    LET paged == Positive64(q.Page) /\ Positive64(q.PageSize)
        offset == Mul64(Dec64(q.Page), q.PageSize)
        r == WhereThenQuery(cw, "find", e, rows)
    IN  [ret |-> r.ret, calls |-> r.calls,
         paged |-> paged,
         limit |-> IF paged THEN q.PageSize ELSE I64(0),
         offset |-> IF paged THEN offset ELSE I64(0),
         order |-> q.OrderByField,
         desc |-> q.OrderByField # "" /\ ToLower(q.SortDirection) = SortDesc]

\* a variant that normalises a copy and leaves the caller's object alone
GetModelsOnCopy(en, qp, cw, e, rows) ==
    LET q0 == IF qp.isNil THEN QueryParams(I64(0), I64(0), "", <<>>) ELSE qp
        q1 == IF Positive64(q0.Page) /\ ~Positive64(q0.PageSize)
              THEN [q0 EXCEPT !.PageSize = I64(defaultPageSize)] ELSE q0
        q == [q1 EXCEPT !.SortDirection = ToLower(q1.SortDirection)]
        noPlan == [paged |-> FALSE, limit |-> I64(0), offset |-> I64(0), order |-> "",
                   desc |-> FALSE]
        out == [params |-> qp]
    IN  IF en = "MongoDB" THEN withMongo("mongoFind", e) @@ noPlan @@ out
        ELSE IF ~IsSQLEngine(en) THEN Unsupported @@ noPlan @@ out
        ELSE find(q, cw, e, rows) @@ out

\* func (c *Client) GetModels(ctx, models, conditions, queryParams, ...)
\* params: the caller's QueryParams object when the call returns;
\* paged: tx.Limit(limit).Offset(offset) was applied
GetModels(en, qp, cw, e, rows) ==
    LET q0 == IF qp.isNil THEN QueryParams(I64(0), I64(0), "", <<>>) ELSE qp
        q1 == IF Positive64(q0.Page) /\ ~Positive64(q0.PageSize)
              THEN [q0 EXCEPT !.PageSize = I64(defaultPageSize)] ELSE q0
        q == [q1 EXCEPT !.SortDirection = ToLower(q1.SortDirection)]
        noPlan == [paged |-> FALSE, limit |-> I64(0), offset |-> I64(0), order |-> "",
                   desc |-> FALSE]
        out == [params |-> IF qp.isNil THEN qp ELSE q]
    IN  IF en = "MongoDB" THEN withMongo("mongoFind", e) @@ noPlan @@ out
        ELSE IF ~IsSQLEngine(en) THEN Unsupported @@ noPlan @@ out
        ELSE find(q, cw, e, rows) @@ out

\* func (c *Client) GetModelCount(ctx, model, conditions, timeout)
GetModelCount(en, cw, e, rows) ==
    IF en = "MongoDB" THEN withMongo("mongoCount", e)
    ELSE IF ~IsSQLEngine(en) THEN Unsupported
    ELSE WhereThenQuery(cw, "count", e, rows)

\* func (c *Client) GetModelsAggregate(ctx, models, conditions, column, ...)
GetModelsAggregate(en, cw, e, rows) ==
    IF en = "MongoDB" THEN withMongo("mongoAggregate", e)
    ELSE IF ~IsSQLEngine(en) THEN Unsupported
    ELSE WhereThenQuery(cw, "scan", e, rows)

(***************************************************************************)
(* func (c *Client) IncrementModel(ctx, model, fieldName, increment)       *)
(* hasID: the model has an ID field; fe: error of the locked First;        *)
(* found: First filled its result; cur: the stored value; ue, ce: errors   *)
(* of the Update and of the commit of the inner transaction.               *)
(***************************************************************************)
IncrementModel(en, hasID, fe, found, cur, inc, ue, ce) ==
    LET begin == <<DriverCall("begin", Nil)>>
        rollback == <<DriverCall("rollback", Nil)>>
        first == <<DriverCall("firstForUpdate", fe)>>
    IN  IF en = "MongoDB" THEN withMongo("mongoIncrement", fe) @@ [newValue |-> 0]
        ELSE IF ~IsSQLEngine(en) THEN Unsupported @@ [newValue |-> 0]
        ELSE IF ~hasID
        THEN [ret |-> "ErrMissingID", newValue |-> 0, calls |-> begin \o rollback]
        ELSE IF fe # Nil
        THEN [ret |-> fe, newValue |-> 0, calls |-> begin \o first \o rollback]
        ELSE IF ~found
        THEN [ret |-> ce, newValue |-> inc,
              calls |-> begin \o first \o <<DriverCall("commit", ce)>>]
        ELSE IF ue # Nil
        THEN [ret |-> ue, newValue |-> cur + inc,
              calls |-> begin \o first \o <<DriverCall("update", ue)>> \o rollback]
        ELSE [ret |-> ce, newValue |-> cur + inc,
              calls |-> begin \o first
                          \o <<DriverCall("update", Nil), DriverCall("commit", ce)>>]

\* func (c *Client) CreateInBatches(ctx, models, batchSize)
\* without a relational handle c.options.db is nil and the call panics
CreateInBatches(en, e) ==
    IF en = "MongoDB" THEN withMongo("mongoCreateInBatches", e)
    ELSE IF ~HasDB(en) THEN [ret |-> Panic, calls |-> <<>>]
    ELSE [ret |-> e, calls |-> <<DriverCall("createInBatches", e)>>]

\* func (c *Client) Execute(query) / Raw(query): the handle of the driver
\* call, or nil
Execute(en, e) ==
    IF IsSQLEngine(en) THEN [ret |-> "handle", calls |-> <<DriverCall("exec", e)>>]
    ELSE [ret |-> Nil, calls |-> <<>>]

Raw(en, e) ==
    IF IsSQLEngine(en) THEN [ret |-> "handle", calls |-> <<DriverCall("raw", e)>>]
    ELSE [ret |-> Nil, calls |-> <<>>]

(***************************************************************************)
(* func (c *Client) AutoMigrateDatabase(ctx, models...) (migrate.go)       *)
(***************************************************************************)
ModelTypes == 1..NumModelTypes

\* client.go (not in the sources): the type is in the registry
HasMigratedModel(mm, t) == \E i \in DOMAIN mm : mm[i] = t

\* errors.New("model " + modelType + " was already migrated"): a new error
\* value that neither is nor wraps a declared error
AlreadyMigratedText == "model was already migrated"

\* the declared error the repository's tests unwrap (its declaration is not
\* in the sources)
errModelAlreadyMigrated == "errModelAlreadyMigrated"

\* the loop over the models: record each type until one is already recorded
RECURSIVE CheckModels(_, _)
CheckModels(mm, models) ==
    IF models = <<>> THEN [migrated |-> mm, dup |-> FALSE]
    ELSE IF HasMigratedModel(mm, Head(models)) THEN [migrated |-> mm, dup |-> TRUE]
    ELSE CheckModels(Append(mm, Head(models)), Tail(models))

\* e: error of the driver's migration
AutoMigrateDatabase(en, am, mm, models, e) ==
    IF ~am THEN [migrated |-> mm, ret |-> Nil, calls |-> <<>>]
    ELSE IF en \notin {"MySQL", "PostgreSQL", "SQLite", "MongoDB"}
    THEN [migrated |-> mm, ret |-> "ErrUnsupportedEngine", calls |-> <<>>]
    ELSE LET c == CheckModels(mm, models)
         IN  IF c.dup
             THEN [migrated |-> c.migrated, ret |-> AlreadyMigratedText, calls |-> <<>>]
             ELSE [migrated |-> c.migrated, ret |-> e,
                   calls |-> <<DriverCall(IF en = "MongoDB" THEN "mongoCreateIndexes"
                                          ELSE "autoMigrate", e)>>]

(***************************************************************************)
(* Concurrent callers of one client, each running one call at a time.      *)
(***************************************************************************)
Procs == {1, 2}

\* a caller outside any call; the fields are the locals of its current call
IdleProc ==
    [pc |-> "idle", op |-> "none", calls |-> 0, delta |-> 0, hasID |-> FALSE,
     cur |-> 0, newValue |-> 0, err |-> Nil, ret |-> Nil, inner |-> "none",
     readVersion |-> 0, model |-> 0, entry |-> 0, drvCalls |-> <<>>]

\* the stored row: version counts the commits that changed it
StoredRow(exists, v) == [exists |-> exists, value |-> v, initial |-> v, version |-> 0]

\* no concurrent caller is at work
ConcIdle ==
    /\ row = StoredRow(FALSE, 0)
    /\ rowLock = 0
    /\ procs = [p \in Procs |-> IdleProc]
    /\ incLog = <<>>

(***************************************************************************)
(* Actions: the calls a caller makes.                                      *)
(***************************************************************************)
CallNewRawTx ==
    /\ ~inFn
    /\ \E b \in {Nil} \cup DriverErrors :
         LET r == NewRawTx(engine, mongoTransactions, b)
         IN  /\ tx' = IF r.ok THEN r.tx ELSE tx
             /\ drv' = IF r.ok THEN r.drv ELSE drv
             /\ hist' = IF r.ok THEN FreshHist(r.drv.state = "active") ELSE hist
             /\ last' = Call("NewRawTx", [returnedTx |-> r.ok], r.ret, r.calls)
    /\ UNCHANGED <<clientVars, concVars, migratedModels, inFn>>

CallNewTx ==
    /\ ~inFn
    /\ \E b \in {Nil} \cup DriverErrors, s \in {Nil} \cup DriverErrors :
         LET r == NewTxBegin(engine, mongoTransactions, b, s)
         IN  /\ tx' = IF r.ok THEN r.tx ELSE tx
             /\ drv' = IF r.ok THEN r.drv ELSE drv
             /\ hist' = IF r.ok THEN FreshHist(r.drv.state = "active") ELSE hist
             /\ inFn' = r.ok
             /\ last' = Call(IF r.ok THEN "fn" ELSE "NewTx",
                             [fnCalls |-> 0, fnRet |-> Nil], r.ret, r.calls)
    /\ UNCHANGED <<clientVars, concVars, migratedModels>>

\* fn returns v and NewTx returns
FnReturn ==
    /\ inFn
    /\ \E v \in {Nil, "fnErr"} :
         LET r == NewTxReturn(tx, drv, v)
         IN  /\ tx' = r.tx
             /\ drv' = r.drv
             /\ hist' = [hist EXCEPT !.nCommit = @ + CommitCalls(r.calls),
                                      !.nCommitOK = @ + CommitOKs(r.calls),
                                      !.nRollback = @ + RollbackCalls(r.calls)]
             /\ last' = Call("NewTx", [fnCalls |-> 1, fnRet |-> v], r.ret, r.calls)
    /\ inFn' = FALSE
    /\ UNCHANGED <<clientVars, concVars, migratedModels>>

CallCommit ==
    /\ tx.present /\ hist.ops < MaxOps
    /\ \E o \in {Nil} \cup DriverErrors, n \in 0..MaxRowsAffected :
         LET r == Commit(tx, drv, o, n)
         IN  /\ tx' = r.tx
             /\ drv' = r.drv
             /\ hist' = [Observe(hist, r.calls) EXCEPT
                            !.commitReturnedOK = @ \/ (r.ret = Nil /\ (tx.sqlTx \/ tx.mongoTx))]
             /\ last' = Call("Commit", NoArg, r.ret, r.calls)
    /\ UNCHANGED <<clientVars, concVars, migratedModels, inFn>>

CallRollback ==
    /\ tx.present /\ hist.ops < MaxOps
    /\ LET r == Rollback(tx, drv)
       IN  /\ tx' = r.tx
           /\ drv' = r.drv
           /\ hist' = [Observe(hist, r.calls) EXCEPT !.rolledBack = TRUE]
           /\ last' = Call("Rollback", NoArg, r.ret, r.calls)
    /\ UNCHANGED <<clientVars, concVars, migratedModels, inFn>>

CallSaveModel ==
    /\ tx.present /\ hist.ops < MaxOps
    /\ \E newRecord \in BOOLEAN, commitTx \in BOOLEAN,
          w \in {Nil, Panic} \cup DriverErrors,
          o \in {Nil} \cup DriverErrors, n \in 0..MaxRowsAffected :
         LET r == SaveModel(engine, tx, drv, newRecord, commitTx, w, o, n)
         IN  /\ tx' = r.tx
             /\ drv' = r.drv
             /\ hist' = [Observe(hist, r.calls) EXCEPT
                            !.rolledBack = @ \/ r.rollbacks > 0,
                            !.commitReturnedOK =
                                @ \/ (r.commits > 0 /\ r.ret = Nil /\ tx.sqlTx)]
             /\ last' = Call("SaveModel",
                             [newRecord |-> newRecord, commitTx |-> commitTx,
                              panicked |-> r.panicked, rollbacks |-> r.rollbacks],
                             r.ret, r.calls)
    /\ UNCHANGED <<clientVars, concVars, migratedModels, inFn>>

Init ==
    /\ engine \in Engines
    /\ mongoTransactions \in (IF engine = "MongoDB" THEN BOOLEAN ELSE {FALSE})
    /\ autoMigrate = FALSE
    /\ migratedModels = <<>>
    /\ tx = NoTransaction
    /\ drv = NoBackend
    /\ hist = FreshHist(FALSE)
    /\ inFn = FALSE
    /\ last = [op |-> "none", arg |-> NoArg, ret |-> Nil, calls |-> <<>>,
               pre |-> [tx |-> NoTransaction, drv |-> NoBackend,
                        hist |-> FreshHist(FALSE), migrated |-> <<>>]]
    /\ ConcIdle

Next ==
    \/ CallNewRawTx
    \/ CallNewTx
    \/ FnReturn
    \/ CallCommit
    \/ CallRollback
    \/ CallSaveModel

Spec == Init /\ [][Next]_vars

(***************************************************************************)
(* Actions of the model operations: they leave the Transaction alone.      *)
(***************************************************************************)
WhereCases == {"none", "ok", "panic"}

SortDirections ==
    {<<>>, Word(<<"a", "s", "c">>, {}), Word(<<"d", "e", "s", "c">>, {1, 2, 3, 4})}

\* what the driver can answer; an engine without a driver answers nothing
QueryOutcomes(en) == IF en = "None" THEN {Nil} ELSE QueryErrors
WriteOutcomes(en) == IF en = "None" THEN {Nil} ELSE {Nil} \cup DriverErrors
RowOutcomes(en) == IF en = "None" THEN {0} ELSE 0..MaxRowsAffected

Pages == {I64(p) : p \in -1..MaxPage} \cup {MaxInt64}

QueryParamsInputs ==
    {NilParams} \cup
    {QueryParams(p, I64(z), f, d) : p \in Pages, z \in -1..MaxPageSize,
                               f \in {"", "id"}, d \in SortDirections}

ModelLists == UNION {[1..k -> ModelTypes] : k \in 0..MaxModels}

ClientCall(op, arg, r) ==
    /\ last' = Call(op, arg, r.ret, r.calls)
    /\ UNCHANGED <<clientVars, concVars, tx, drv, hist, inFn>>

CallGetModel ==
    /\ \E cw \in WhereCases, fw \in BOOLEAN, e \in QueryOutcomes(engine), rows \in RowOutcomes(engine) :
         LET r == GetModel(engine, cw, fw, e, rows)
         IN  ClientCall("GetModel", [cw |-> cw, rows |-> rows, writer |-> r.writer], r)
    /\ UNCHANGED migratedModels

CallGetModels ==
    /\ \E qp \in QueryParamsInputs, cw \in WhereCases, e \in QueryOutcomes(engine),
          rows \in RowOutcomes(engine) :
         LET r == GetModels(engine, qp, cw, e, rows)
         IN  ClientCall("GetModels",
                        [cw |-> cw, rows |-> rows, given |-> qp, params |-> r.params,
                         paged |-> r.paged, limit |-> r.limit, offset |-> r.offset,
                         order |-> r.order, desc |-> r.desc], r)
    /\ UNCHANGED migratedModels

CallGetModelCount ==
    /\ \E cw \in WhereCases, e \in QueryOutcomes(engine), rows \in RowOutcomes(engine) :
         ClientCall("GetModelCount", [cw |-> cw], GetModelCount(engine, cw, e, rows))
    /\ UNCHANGED migratedModels

CallGetModelsAggregate ==
    /\ \E cw \in WhereCases, e \in QueryOutcomes(engine), rows \in RowOutcomes(engine) :
         ClientCall("GetModelsAggregate", [cw |-> cw],
                    GetModelsAggregate(engine, cw, e, rows))
    /\ UNCHANGED migratedModels

CallIncrementModel ==
    /\ \E hasID \in BOOLEAN, fe \in QueryOutcomes(engine), found \in BOOLEAN,
          cur \in 0..MaxIncrement, inc \in 1..MaxIncrement,
          ue \in WriteOutcomes(engine), ce \in WriteOutcomes(engine) :
         LET r == IncrementModel(engine, hasID, fe, found, cur, inc, ue, ce)
         IN  ClientCall("IncrementModel",
                        [increment |-> inc, newValue |-> r.newValue], r)
    /\ UNCHANGED migratedModels

CallCreateInBatches ==
    /\ \E e \in WriteOutcomes(engine) :
         ClientCall("CreateInBatches", NoArg, CreateInBatches(engine, e))
    /\ UNCHANGED migratedModels

CallExecute ==
    /\ \E e \in WriteOutcomes(engine) :
         ClientCall("Execute", NoArg, Execute(engine, e))
    /\ UNCHANGED migratedModels

CallRaw ==
    /\ \E e \in WriteOutcomes(engine) :
         ClientCall("Raw", NoArg, Raw(engine, e))
    /\ UNCHANGED migratedModels

CallAutoMigrateDatabase ==
    \E models \in ModelLists, e \in WriteOutcomes(engine) :
        LET r == AutoMigrateDatabase(engine, autoMigrate, migratedModels, models, e)
        IN  /\ migratedModels' = r.migrated
            /\ ClientCall("AutoMigrateDatabase", [models |-> models], r)

ClientOps ==
    \/ CallGetModel
    \/ CallGetModels
    \/ CallGetModelCount
    \/ CallGetModelsAggregate
    \/ CallIncrementModel
    \/ CallCreateInBatches
    \/ CallExecute
    \/ CallRaw
    \/ CallAutoMigrateDatabase

InitLast ==
    [op |-> "none", arg |-> NoArg, ret |-> Nil, calls |-> <<>>,
     pre |-> [tx |-> NoTransaction, drv |-> NoBackend,
              hist |-> FreshHist(FALSE), migrated |-> <<>>]]

\* a client of any engine and the model operations on it
ClientInit ==
    /\ engine \in Engines
    /\ mongoTransactions \in (IF engine = "MongoDB" THEN BOOLEAN ELSE {FALSE})
    /\ autoMigrate \in BOOLEAN
    /\ migratedModels = <<>>
    /\ tx = NoTransaction
    /\ drv = NoBackend
    /\ hist = FreshHist(FALSE)
    /\ inFn = FALSE
    /\ last = InitLast
    /\ ConcIdle

\* migrations only
MigrateSpec == ClientInit /\ [][CallAutoMigrateDatabase]_vars

\* an unconfigured client (engine None) and every call on it
NoneInit == ClientInit /\ engine = "None"

NoneNext == Next \/ ClientOps

NoneSpec == NoneInit /\ [][NoneNext]_vars

(***************************************************************************)
(* Concurrent calls on one client of a relational engine: IncrementModel   *)
(* (models.go), GetModel and AutoMigrateDatabase, one step per access to   *)
(* the client's fields or to the database.                                 *)
(*                                                                         *)
(* The database: on MySQL and PostgreSQL the locking read (FOR UPDATE)     *)
(* takes the row's lock and waits while another transaction holds it.      *)
(* SQLite has no row locks: the read takes none, and a write fails (busy)  *)
(* while another transaction holds the write lock or after another         *)
(* transaction's commit changed what this one has read.  A lock is held    *)
(* until the transaction ends.                                             *)
(***************************************************************************)
\* the driver error a step of a concurrent call may draw
ConcErrors == {"E1"}

RowLocks(en) == en \in {"MySQL", "PostgreSQL"}

SetProc(p, r) == procs' = [procs EXCEPT ![p] = r]

LeaveClientAlone == UNCHANGED <<clientVars, tx, drv, hist, inFn>>

\* calls entered so far, returned or not
RECURSIVE Started(_)
Started(ps) ==
    IF ps = {} THEN 0
    ELSE LET p == CHOOSE q \in ps : TRUE
         IN  procs[p].calls + (IF procs[p].pc = "idle" THEN 0 ELSE 1)
               + Started(ps \ {p})

CanCall(p) ==
    /\ IsSQLEngine(engine)
    /\ procs[p].pc = "idle"
    /\ Started(Procs) < MaxConcCalls

\* a caller enters IncrementModel(ctx, model, fieldName, delta)
ConcCallIncrementModel(p) ==
    /\ CanCall(p)
    /\ \E d \in 1..MaxIncrement, id \in BOOLEAN :
         SetProc(p, [procs[p] EXCEPT !.pc = "setTxn", !.op = "IncrementModel",
                                     !.delta = d, !.hasID = id, !.entry = row.value])
    /\ LeaveClientAlone
    /\ UNCHANGED <<migratedModels, last, row, rowLock, incLog>>

\* a caller enters GetModel
ConcCallGetModel(p) ==
    /\ CanCall(p)
    /\ SetProc(p, [procs[p] EXCEPT !.pc = "setTxn", !.op = "GetModel"])
    /\ LeaveClientAlone
    /\ UNCHANGED <<migratedModels, last, row, rowLock, incLog>>

\* a caller enters AutoMigrateDatabase(ctx, model): the auto-migrate flag and
\* the engine are checked
ConcCallAutoMigrateDatabase(p) ==
    /\ CanCall(p)
    /\ \E m \in ModelTypes :
         SetProc(p, [procs[p] EXCEPT !.pc = IF autoMigrate THEN "checkModel" ELSE "return",
                                     !.op = "AutoMigrateDatabase", !.model = m])
    /\ LeaveClientAlone
    /\ UNCHANGED <<migratedModels, last, row, rowLock, incLog>>

\* c.options.db = nrgorm.SetTxnToGorm(newrelic.FromContext(ctx), c.options.db)
SetTxnToGorm(p) ==
    /\ procs[p].pc = "setTxn"
    /\ SetProc(p, [procs[p] EXCEPT
                     !.pc = IF procs[p].op = "IncrementModel" THEN "begin" ELSE "query"])
    /\ LeaveClientAlone
    /\ UNCHANGED <<migratedModels, last, row, rowLock, incLog>>

\* GetModel: checkResult(tx.Find(model))
ConcFind(p) ==
    /\ procs[p].pc = "query"
    /\ \E e \in ({Nil} \cup ConcErrors), rows \in 0..MaxRowsAffected :
         SetProc(p, [procs[p] EXCEPT !.pc = "return", !.ret = checkResult(e, rows),
                                     !.drvCalls = <<DriverCall("find", e)>>])
    /\ LeaveClientAlone
    /\ UNCHANGED <<migratedModels, last, row, rowLock, incLog>>

\* c.options.db.Transaction(func(tx *gorm.DB) error {...}): the Begin
IncBegin(p) ==
    /\ procs[p].pc = "begin"
    /\ \E b \in {Nil} \cup ConcErrors :
         SetProc(p, [procs[p] EXCEPT
                       !.pc = IF b = Nil THEN "getID" ELSE "return",
                       !.inner = IF b = Nil THEN "open" ELSE "none",
                       !.ret = b,
                       !.drvCalls = <<DriverCall("begin", b)>>])
    /\ LeaveClientAlone
    /\ UNCHANGED <<migratedModels, last, row, rowLock, incLog>>

\* id := GetModelStringAttribute(model, sqlIDFieldProper)
IncGetID(p) ==
    /\ procs[p].pc = "getID"
    /\ SetProc(p, IF procs[p].hasID
                  THEN [procs[p] EXCEPT !.pc = "first"]
                  ELSE [procs[p] EXCEPT !.pc = "rollback", !.err = "ErrMissingID"])
    /\ LeaveClientAlone
    /\ UNCHANGED <<migratedModels, last, row, rowLock, incLog>>

\* the locking First fails in the driver (also: the context is cancelled)
IncFirstFails(p) ==
    /\ procs[p].pc = "first"
    /\ \E e \in ConcErrors :
         SetProc(p, [procs[p] EXCEPT !.pc = "rollback", !.err = e,
                       !.drvCalls = Append(@, DriverCall("firstForUpdate", e))])
    /\ LeaveClientAlone
    /\ UNCHANGED <<migratedModels, last, row, rowLock, incLog>>

\* mutant: the read takes no lock and never waits, and nothing refuses a
\* write later
IncFirstNoLock(p) ==
    /\ procs[p].pc = "first"
    /\ row.exists
    /\ SetProc(p, [procs[p] EXCEPT !.pc = "update", !.cur = row.value,
                      !.readVersion = -1,
                      !.drvCalls = Append(@, DriverCall("firstForUpdate", Nil))])
    /\ LeaveClientAlone
    /\ UNCHANGED <<migratedModels, last, row, rowLock, incLog>>

\* tx.Model(&model).Clauses(clause.Locking{Strength: "UPDATE"}).Where(...)
\* .First(&result): no row is gorm.ErrRecordNotFound
IncFirst(p) ==
    /\ procs[p].pc = "first"
    /\ RowLocks(engine) /\ row.exists => rowLock = 0
    /\ IF row.exists
       THEN /\ SetProc(p, [procs[p] EXCEPT !.pc = "update", !.cur = row.value,
                              !.readVersion = row.version,
                              !.drvCalls = Append(@, DriverCall("firstForUpdate", Nil))])
            /\ rowLock' = IF RowLocks(engine) THEN p ELSE rowLock
       ELSE /\ SetProc(p, [procs[p] EXCEPT !.pc = "rollback", !.err = "ErrRecordNotFound",
                              !.drvCalls =
                                  Append(@, DriverCall("firstForUpdate", "ErrRecordNotFound"))])
            /\ UNCHANGED rowLock
    /\ LeaveClientAlone
    /\ UNCHANGED <<migratedModels, last, row, incLog>>

\* SQLite refuses the write
Busy(p) ==
    /\ ~RowLocks(engine)
    /\ procs[p].readVersion >= 0
    /\ rowLock \notin {0, p} \/ row.version # procs[p].readVersion

\* newValue = convertToInt64(result[fieldName]) + increment, then
\* tx.Model(&model).Where(...).Update(fieldName, newValue)
IncUpdate(p) ==
    /\ procs[p].pc = "update"
    /\ \E u \in {Nil} \cup ConcErrors :
         LET e == IF Busy(p) THEN "ErrBusy" ELSE u
             nv == procs[p].cur + procs[p].delta
         IN  /\ SetProc(p, [procs[p] EXCEPT
                              !.pc = IF e = Nil THEN "commit" ELSE "rollback",
                              !.newValue = nv, !.err = e,
                              !.drvCalls = Append(@, DriverCall("update", e))])
             /\ rowLock' = IF e = Nil THEN p ELSE rowLock
    /\ LeaveClientAlone
    /\ UNCHANGED <<migratedModels, last, row, incLog>>

\* result == nil cannot follow a First that returned no error; fn returned
\* nil: tx.Commit().  A failed commit ends the transaction without effect,
\* and the deferred Rollback finds it finished.
IncCommit(p) ==
    /\ procs[p].pc = "commit"
    /\ \E ce \in {Nil} \cup ConcErrors :
         /\ SetProc(p, [procs[p] EXCEPT
                          !.pc = "return", !.ret = ce,
                          !.inner = IF ce = Nil THEN "committed" ELSE "rolledBack",
                          !.drvCalls =
                              IF ce = Nil THEN Append(@, DriverCall("commit", Nil))
                              ELSE @ \o <<DriverCall("commit", ce),
                                          DriverCall("rollback", "ErrTxDone")>>])
         /\ row' = IF ce = Nil
                   THEN [row EXCEPT !.value = procs[p].newValue, !.version = @ + 1]
                   ELSE row
    /\ rowLock' = IF rowLock = p THEN 0 ELSE rowLock
    /\ LeaveClientAlone
    /\ UNCHANGED <<migratedModels, last, incLog>>

\* mutant: the error is returned without ending the transaction
IncRollbackLeavesOpen(p) ==
    /\ procs[p].pc = "rollback"
    /\ SetProc(p, [procs[p] EXCEPT !.pc = "return", !.ret = procs[p].err])
    /\ LeaveClientAlone
    /\ UNCHANGED <<migratedModels, last, row, rowLock, incLog>>

\* fn returned an error: the deferred tx.Rollback()
IncRollback(p) ==
    /\ procs[p].pc = "rollback"
    /\ SetProc(p, [procs[p] EXCEPT !.pc = "return", !.ret = procs[p].err,
                      !.inner = "rolledBack",
                      !.drvCalls = Append(@, DriverCall("rollback", Nil))])
    /\ rowLock' = IF rowLock = p THEN 0 ELSE rowLock
    /\ LeaveClientAlone
    /\ UNCHANGED <<migratedModels, last, row, incLog>>

\* AutoMigrateDatabase: if c.HasMigratedModel(modelType)
MigCheckModel(p) ==
    /\ procs[p].pc = "checkModel"
    /\ SetProc(p, IF HasMigratedModel(migratedModels, procs[p].model)
                  THEN [procs[p] EXCEPT !.pc = "return", !.ret = AlreadyMigratedText]
                  ELSE [procs[p] EXCEPT !.pc = "recordModel"])
    /\ LeaveClientAlone
    /\ UNCHANGED <<migratedModels, last, row, rowLock, incLog>>

\* c.options.migratedModels = append(c.options.migratedModels, modelType)
MigRecordModel(p) ==
    /\ procs[p].pc = "recordModel"
    /\ migratedModels' = Append(migratedModels, procs[p].model)
    /\ SetProc(p, [procs[p] EXCEPT !.pc = "migrate"])
    /\ LeaveClientAlone
    /\ UNCHANGED <<last, row, rowLock, incLog>>

\* autoMigrateSQLDatabase(...)
MigMigrate(p) ==
    /\ procs[p].pc = "migrate"
    /\ \E e \in {Nil} \cup ConcErrors :
         SetProc(p, [procs[p] EXCEPT !.pc = "return", !.ret = e,
                                     !.drvCalls = <<DriverCall("autoMigrate", e)>>])
    /\ LeaveClientAlone
    /\ UNCHANGED <<migratedModels, last, row, rowLock, incLog>>

\* the call returns to its caller
ConcReturn(p) ==
    /\ procs[p].pc = "return"
    /\ last' = Call(procs[p].op,
                    [proc |-> p, delta |-> procs[p].delta, newValue |-> procs[p].newValue,
                     inner |-> procs[p].inner, entry |-> procs[p].entry,
                     stored |-> row.value, holdsLock |-> rowLock = p],
                    procs[p].ret, procs[p].drvCalls)
    /\ incLog' = IF procs[p].op = "IncrementModel"
                 THEN Append(incLog, [proc |-> p, delta |-> procs[p].delta,
                                      newValue |-> procs[p].newValue,
                                      ret |-> procs[p].ret])
                 ELSE incLog
    /\ SetProc(p, [IdleProc EXCEPT !.calls = procs[p].calls + 1])
    /\ LeaveClientAlone
    /\ UNCHANGED <<migratedModels, row, rowLock>>

ConcInit ==
    /\ engine \in {"MySQL", "PostgreSQL", "SQLite"}
    /\ mongoTransactions = FALSE
    /\ autoMigrate \in BOOLEAN
    /\ migratedModels = <<>>
    /\ tx = NoTransaction
    /\ drv = NoBackend
    /\ hist = FreshHist(FALSE)
    /\ inFn = FALSE
    /\ last = InitLast
    /\ row \in {StoredRow(FALSE, 0)} \cup {StoredRow(TRUE, v) : v \in 0..MaxIncrement}
    /\ rowLock = 0
    /\ procs = [p \in Procs |-> IdleProc]
    /\ incLog = <<>>

ConcNext ==
    \E p \in Procs :
        \/ ConcCallIncrementModel(p)
        \/ ConcCallGetModel(p)
        \/ ConcCallAutoMigrateDatabase(p)
        \/ SetTxnToGorm(p)
        \/ ConcFind(p)
        \/ IncBegin(p)
        \/ IncGetID(p)
        \/ IncFirstFails(p)
        \/ IncFirst(p)
        \/ IncUpdate(p)
        \/ IncCommit(p)
        \/ IncRollback(p)
        \/ MigCheckModel(p)
        \/ MigRecordModel(p)
        \/ MigMigrate(p)
        \/ ConcReturn(p)

ConcSpec == ConcInit /\ [][ConcNext]_vars

\* concurrent callers that only increment
IncrementInit == ConcInit /\ autoMigrate = FALSE

IncrementNext ==
    \E p \in Procs :
        \/ ConcCallIncrementModel(p)
        \/ SetTxnToGorm(p)
        \/ IncBegin(p)
        \/ IncGetID(p)
        \/ IncFirstFails(p)
        \/ IncFirst(p)
        \/ IncUpdate(p)
        \/ IncCommit(p)
        \/ IncRollback(p)
        \/ ConcReturn(p)

IncrementSpec == IncrementInit /\ [][IncrementNext]_vars

(***************************************************************************)
(* Properties of the transaction facade and of SaveModel.                  *)
(***************************************************************************)
HasHandle(t) == t.sqlTx \/ t.mongoTx

\* C1: on a Transaction with a backend handle, once a Commit call has
\* succeeded CanCommit is false and every later Commit returns success
\* without a driver commit and without changing committed or rowsAffected;
\* the driver commit succeeds at most once per Transaction.
C1_CommitAtMostOnce ==
    /\ hist.nCommitOK <= 1
    /\ (tx.present /\ hist.commitReturnedOK) => ~CanCommit(tx)
    /\ (last.op = "Commit" /\ last.pre.hist.commitReturnedOK) =>
          /\ last.ret = Nil
          /\ last.calls = <<>>
          /\ tx.committed = last.pre.tx.committed
          /\ tx.rowsAffected = last.pre.tx.rowsAffected

C1_Witness ==
    /\ last.op = "Commit"
    /\ last.pre.hist.commitReturnedOK
    /\ HasHandle(last.pre.tx)
    /\ hist.nCommitOK = 1

\* C2 as stated: when Commit is called on an open relational transaction and
\* the driver commit fails, Commit issues a driver rollback, returns that
\* same driver error, and leaves committed = false and rowsAffected = 0, so
\* CanCommit stays true and a later Commit attempts the driver commit again.
C2_CommitErrorRollsBack ==
    (last.op = "Commit" /\ last.pre.tx.sqlTx /\ ~last.pre.tx.committed) =>
        /\ Len(last.calls) >= 1
        /\ last.calls[1].c = "commit"
        /\ last.calls[1].r # Nil =>
              /\ Len(last.calls) = 2
              /\ last.calls[2].c = "rollback"
              /\ last.ret = last.calls[1].r
              /\ ~tx.committed
              /\ tx.rowsAffected = 0
              /\ CanCommit(tx)

\* C2 with the error the code returns, the Error field of the handle after
\* the rollback (not a claim: a cross-check)
C2_ReturnsHandleError ==
    (last.op = "Commit" /\ last.pre.tx.sqlTx /\ ~last.pre.tx.committed) =>
        /\ Len(last.calls) >= 1
        /\ last.calls[1].c = "commit"
        /\ last.calls[1].r # Nil =>
              /\ Len(last.calls) = 2
              /\ last.calls[2].c = "rollback"
              /\ last.ret = drv.err
              /\ last.ret =
                    AddError(AddError(last.pre.drv.err, last.calls[1].r), last.calls[2].r)
              /\ ~tx.committed
              /\ tx.rowsAffected = 0
              /\ CanCommit(tx)

\* an open transaction whose driver commit failed
C2_Witness ==
    /\ last.op = "Commit"
    /\ last.pre.tx.sqlTx
    /\ last.pre.drv.state = "active"
    /\ last.calls[1].r \in DriverErrors
    /\ CanCommit(tx)

C4_CanCommitIffOpen ==
    tx.present =>
        (CanCommit(tx) <=> (HasHandle(tx) /\ ~tx.committed /\ ~hist.rolledBack))

\* C5 as stated: on a committed or rolled-back Transaction, Commit and
\* Rollback issue no driver call and return success.
C5_TerminalAbsorbing ==
    (last.op \in {"Commit", "Rollback"}
       /\ (last.pre.tx.committed \/ last.pre.hist.rolledBack)) =>
        /\ last.ret = Nil
        /\ last.calls = <<>>

\* C6 as stated: whenever SaveModel on a relational engine returns an
\* error, a rollback has been issued on the Transaction by the time it
\* returns.
C6_Original ==
    (last.op = "SaveModel" /\ IsSQLEngine(engine) /\ last.ret # Nil) =>
        hist.nRollback >= 1

\* C6 amended: on a relational engine, when SaveModel returns an error
\* because the INSERT, the UPSERT or the commit failed, a driver rollback
\* was issued as its last driver call and the backend transaction is no
\* longer active; when the handle already carries an error on entry,
\* SaveModel returns that error and issues no driver call at all, and no
\* backend transaction is active behind the handle.
C6_SaveErrorRollsBack ==
    (last.op = "SaveModel" /\ IsSQLEngine(engine) /\ last.ret # Nil) =>
        IF last.pre.drv.err # Nil
        THEN /\ last.ret = last.pre.drv.err
             /\ last.calls = <<>>
             /\ drv = last.pre.drv
             /\ drv.state # "active"
        ELSE /\ RollbackCalls(last.calls) = 1
             /\ last.calls[Len(last.calls)].c = "rollback"
             /\ drv.state # "active"
             /\ drv.pending = 0

\* the INSERT failed on an open transaction that already held a row
C6_Witness ==
    /\ last.op = "SaveModel"
    /\ last.arg.newRecord
    /\ last.ret \in DriverErrors
    /\ last.pre.drv.state = "active"
    /\ last.pre.drv.pending > 0
    /\ CommitCalls(last.calls) = 0

\* C7 as stated: after a recovered panic SaveModel has called Rollback
\* once and returns a non-nil error.
C7_PanicReturnsError ==
    (last.op = "SaveModel" /\ last.arg.panicked) =>
        /\ last.arg.rollbacks = 1
        /\ last.ret # Nil

\* C8 as stated: a successful SaveModel on a relational engine leaves the
\* Transaction committed when commitTx is set, and otherwise issues no
\* commit and leaves it open; rows are visible only after a successful
\* commit.
C8_SaveSuccessState ==
    /\ (last.op = "SaveModel" /\ IsSQLEngine(engine) /\ last.ret = Nil) =>
          IF last.arg.commitTx
          THEN tx.committed /\ ~CanCommit(tx)
          ELSE /\ CommitCalls(last.calls) = 0
               /\ CanCommit(tx)
               /\ drv.state = "active"
    /\ (IsSQLEngine(engine) /\ drv.visible > 0) =>
          (drv.state = "committed" /\ hist.nCommitOK = 1)

\* C8 without the recovered panic of C7 (not a claim: a cross-check)
C8_WithoutPanic ==
    /\ (last.op = "SaveModel" /\ IsSQLEngine(engine) /\ last.ret = Nil
          /\ ~last.arg.panicked) =>
          IF last.arg.commitTx
          THEN tx.committed /\ ~CanCommit(tx)
          ELSE /\ CommitCalls(last.calls) = 0
               /\ CanCommit(tx)
               /\ drv.state = "active"
    /\ (IsSQLEngine(engine) /\ drv.visible > 0) =>
          (drv.state = "committed" /\ hist.nCommitOK = 1)

(***************************************************************************)
(* Properties of an unconfigured client and of migrations.                 *)
(***************************************************************************)
C9_Operations ==
    {"SaveModel", "GetModel", "GetModels", "GetModelCount", "GetModelsAggregate",
     "IncrementModel", "CreateInBatches", "AutoMigrateDatabase", "NewRawTx", "NewTx",
     "Raw", "Execute"}

\* C9: on a client whose engine is None every operation (Save, Get, GetMany,
\* Count, Aggregate, Increment, CreateInBatches, Migrate, NewRawTx, NewTx, Raw,
\* Execute) fails with UnsupportedEngine and makes no driver call.
C9_NoneFailsUnsupported ==
    (engine = "None" /\ last.op \in C9_Operations) =>
        (last.ret = "ErrUnsupportedEngine" /\ last.calls = <<>>)

\* what the operations do on engine None (not a claim: a cross-check)
C9_NoneBehaviour ==
    engine = "None" =>
        /\ last.calls = <<>>
        /\ last.op \in {"SaveModel", "GetModel", "GetModels", "GetModelCount",
                         "GetModelsAggregate", "IncrementModel"}
              => last.ret = "ErrUnsupportedEngine"
        /\ last.op = "AutoMigrateDatabase"
              => last.ret = (IF autoMigrate THEN "ErrUnsupportedEngine" ELSE Nil)
        /\ last.op = "NewRawTx" => (last.ret = Nil /\ last.arg.returnedTx)
        /\ last.op = "NewTx" => (last.arg.fnCalls = 1 /\ last.ret = last.arg.fnRet)
        /\ last.op \in {"Raw", "Execute"} => last.ret = Nil
        /\ last.op = "CreateInBatches" => last.ret = Panic

NamesRecorded(models, mm) == \E i \in DOMAIN models : HasMigratedModel(mm, models[i])

\* C10: with auto-migrate enabled, a Migrate call naming a model type that an
\* earlier Migrate call recorded fails with AlreadyMigrated and issues no
\* driver migration; with auto-migrate disabled, Migrate returns success,
\* records nothing and issues no driver migration, however often it is called.
C10_MigrateTwice ==
    /\ (last.op = "AutoMigrateDatabase" /\ autoMigrate
          /\ NamesRecorded(last.arg.models, last.pre.migrated)) =>
            (last.ret = errModelAlreadyMigrated /\ last.calls = <<>>)
    /\ ~autoMigrate =>
            (migratedModels = <<>> /\ last.ret = Nil /\ last.calls = <<>>)

\* C10 with the error the code builds (not a claim: a cross-check)
C10_MigrateTwiceFails ==
    /\ (last.op = "AutoMigrateDatabase" /\ autoMigrate
          /\ NamesRecorded(last.arg.models, last.pre.migrated)) =>
            (last.ret = AlreadyMigratedText /\ last.calls = <<>>)
    /\ ~autoMigrate =>
            (migratedModels = <<>> /\ last.ret = Nil /\ last.calls = <<>>)

(***************************************************************************)
(* Properties of concurrent calls.                                         *)
(***************************************************************************)
\* deltas of the IncrementModel calls in the log that returned success
RECURSIVE SumSucceeded(_)
SumSucceeded(log) ==
    IF log = <<>> THEN 0
    ELSE (IF Head(log).ret = Nil THEN Head(log).delta ELSE 0) + SumSucceeded(Tail(log))

\* deltas committed by calls that have not returned yet
RECURSIVE SumInFlight(_)
SumInFlight(ps) ==
    IF ps = {} THEN 0
    ELSE LET p == CHOOSE q \in ps : TRUE
         IN  (IF procs[p].inner = "committed" THEN procs[p].delta ELSE 0)
               + SumInFlight(ps \ {p})

Succeeded == {i \in DOMAIN incLog : incLog[i].ret = Nil}

\* C11: no interleaving of IncrementModel calls loses an update: the stored
\* value is the initial value plus the deltas of the calls whose commit
\* succeeded, and when exactly two calls with deltas d1 and d2 have succeeded
\* on a row that held v, the stored value is v + d1 + d2 and the two returned
\* values are v + d1 and v + d1 + d2, or v + d2 and v + d1 + d2.
C11_IncrementAtomic ==
    /\ row.value = row.initial + SumSucceeded(incLog) + SumInFlight(Procs)
    /\ (Cardinality(Succeeded) = 2 /\ SumInFlight(Procs) = 0) =>
          \E i \in Succeeded, j \in Succeeded :
              /\ i # j
              /\ incLog[i].newValue = row.initial + incLog[i].delta
              /\ incLog[j].newValue = row.initial + incLog[i].delta + incLog[j].delta
              /\ row.value = incLog[j].newValue

\* two calls that both found the initial value stored when they were entered
\* (the second was entered before the first committed) have both succeeded
C11_Witness ==
    /\ Len(incLog) = 2
    /\ Succeeded = {1, 2}
    /\ incLog[1].proc # incLog[2].proc
    /\ last.op = "IncrementModel"
    /\ last.arg.entry = row.initial
    /\ row.value = row.initial + incLog[1].delta + incLog[2].delta

\* the locking read of the call found no row
ReadFoundNoRow(calls) ==
    \E i \in DOMAIN calls :
        calls[i].c = "firstForUpdate" /\ calls[i].r = "ErrRecordNotFound"

\* C12 as stated: IncrementModel on a model whose ID matches no stored row
\* returns newValue = delta with no error, and inserts no row.
C12_MissingRowIsZero ==
    (last.op = "IncrementModel" /\ ReadFoundNoRow(last.calls)) =>
        /\ last.ret = Nil
        /\ last.arg.newValue = last.arg.delta
        /\ ~row.exists

\* what the code does on a missing row (not a claim: a cross-check)
C12_MissingRowFails ==
    (last.op = "IncrementModel" /\ ReadFoundNoRow(last.calls)) =>
        /\ last.ret = "ErrRecordNotFound"
        /\ last.arg.newValue = 0
        /\ last.arg.inner = "rolledBack"
        /\ ~row.exists

\* C13: IncrementModel never leaves its inner transaction open: when it
\* returns success the inner transaction is committed; when it returns an
\* error (no ID field, read failure, update failure, commit failure,
\* cancellation) the inner transaction is rolled back or was never begun,
\* and the call has changed nothing: the stored value is the initial value
\* plus the deltas of the successful calls only.  No returned call holds a
\* lock.
C13_IncrementClosesTx ==
    /\ last.op = "IncrementModel" =>
          /\ ~last.arg.holdsLock
          /\ last.ret = Nil => last.arg.inner = "committed"
          /\ last.ret # Nil =>
                /\ last.arg.inner \in {"rolledBack", "none"}
                /\ last.arg.inner = "none" => Len(last.calls) = 1
                /\ CommitOKs(last.calls) = 0
                /\ last.calls[Len(last.calls)].c \in {"begin", "rollback"}
    /\ \A p \in Procs : procs[p].pc \in {"idle", "return"} => rowLock # p
    /\ row.value = row.initial + SumSucceeded(incLog) + SumInFlight(Procs)

\* the update was written and the call then failed: the value is unchanged
C13_Witness ==
    /\ last.op = "IncrementModel"
    /\ last.ret \in DriverErrors
    /\ \E i \in DOMAIN last.calls : last.calls[i] = DriverCall("update", Nil)
    /\ last.arg.newValue # last.arg.stored
    /\ incLog = <<[proc |-> last.arg.proc, delta |-> last.arg.delta,
                   newValue |-> last.arg.newValue, ret |-> last.ret]>>
    /\ row.value = row.initial

\* the client field a caller's next step reads or writes
Access(p) ==
    CASE procs[p].pc = "setTxn" -> [field |-> "db", write |-> TRUE]
      [] procs[p].pc \in {"begin", "query"} -> [field |-> "db", write |-> FALSE]
      [] procs[p].pc = "checkModel" -> [field |-> "migratedModels", write |-> FALSE]
      [] procs[p].pc = "recordModel" -> [field |-> "migratedModels", write |-> TRUE]
      [] OTHER -> [field |-> "none", write |-> FALSE]

\* C14 as stated: no interleaving of two concurrent calls on one client has
\* two unordered accesses, at least one a write, to the same client field:
\* no two callers are ever both about to access the same field with one of
\* them writing it.
C14_NoUnorderedClientWrite ==
    \A p \in Procs, q \in Procs :
        (p # q /\ Access(p).field # "none" /\ Access(p).field = Access(q).field) =>
            (~Access(p).write /\ ~Access(q).write)

(***************************************************************************)
(* The condition compiler (CustomWhere, processConditions).                *)
(*                                                                         *)
(* A conditions map is a sequence of entries [key, cond] in the order the  *)
(* range loop visits them.  A value is a record tagged by its Go type.  A  *)
(* fragment is a sequence of tokens [t, s]: t tells where the text s comes *)
(* from ("sql" literal syntax, "name" a field name or JSON path component, *)
(* "ref" a bind variable reference, "value" a character of a caller's     *)
(* value, "escape" a backslash put in front of a character); the SQL text  *)
(* is the concatenation of the s.                                          *)
(***************************************************************************)
MaxStartVar == 1       \* largest value of the variable counter on entry
MaxListLen == 2        \* longest list under $in, $nin, $and, $or

SQLEngines == {"MySQL", "PostgreSQL", "SQLite"}
ArrayFields == {"tags"}      \* client.GetArrayFields()
ObjectFields == {"meta"}     \* client.GetObjectFields()

IntV(n) == [kind |-> "int", n |-> n]
StrV(chars) == [kind |-> "string", chars |-> chars]
BoolV(b) == [kind |-> "bool", b |-> b]
NilValue == [kind |-> "nil"]
NullTime(valid) == [kind |-> "NullTime", valid |-> valid]
List(items) == [kind |-> "list", items |-> items]
\* map[string]interface{}
Map(conds) == [kind |-> "map", conds |-> conds]
\* a map of another Go type, e.g. map[string]string
TypedMap(conds) == [kind |-> "typedmap", conds |-> conds]
\* []map[string]interface{}
Maps(elems) == [kind |-> "maps", elems |-> elems]
Entry(key, cond) == [key |-> key, cond |-> cond]

Sql(s) == [t |-> "sql", s |-> s]
Name(s) == [t |-> "name", s |-> s]
Escape == [t |-> "escape", s |-> "\\"]
Value(c) == [t |-> "value", s |-> c]

Digits == <<"0", "1", "2", "3", "4", "5", "6", "7", "8", "9">>

\* strconv.Itoa
RECURSIVE Itoa(_)
Itoa(n) == IF n < 10 THEN Digits[n + 1] ELSE Itoa(n \div 10) \o Digits[(n % 10) + 1]

\* varName := "var" + strconv.Itoa(*varNum)
VarName(varNum) == "var" \o Itoa(varNum)
Ref(varNum) == [t |-> "ref", s |-> "@" \o VarName(varNum)]

\* strings.Join over fragments
RECURSIVE Join(_, _)
Join(parts, sep) ==
    IF Len(parts) = 0 THEN <<>>
    ELSE IF Len(parts) = 1 THEN parts[1]
    ELSE parts[1] \o <<Sql(sep)>> \o Join(Tail(parts), sep)

\* the SQL text of a fragment
RECURSIVE Render(_)
Render(query) == IF query = <<>> THEN "" ELSE Head(query).s \o Render(Tail(query))

\* mutant: MySQL is handed its strings quoted
formatConditionPerEngine(condition, en) ==
    IF condition.kind = "string" /\ en = "MySQL"
    THEN StrV(<<"'">> \o condition.chars \o <<"'">>)
    ELSE IF condition.kind = "NullTime" THEN NilValue
    ELSE condition

\* formatCondition: a NullTime becomes a string in the engine's layout, an
\* invalid one nil; every other value is returned as it is
formatCondition(condition, en) ==
    IF condition.kind = "NullTime"
    THEN IF ~condition.valid THEN NilValue
         ELSE IF en = "MySQL" THEN StrV(<<"2022-04-04 15:12:37">>)
         ELSE IF en = "PostgreSQL" THEN StrV(<<"2022-04-04T15:12:37Z">>)
         ELSE StrV(<<"2022-04-04T15:12:37.651Z">>)
    ELSE condition

\* escapeDBString: a backslash in front of every ' and "
RECURSIVE escapeDBString(_)
escapeDBString(chars) ==
    IF chars = <<>> THEN <<>>
    ELSE (IF Head(chars) \in {"'", "\""} THEN <<Escape>> ELSE <<>>)
           \o <<Value(Head(chars))>> \o escapeDBString(Tail(chars))

\* v.(string) concatenated as it is
RECURSIVE Verbatim(_)
Verbatim(chars) ==
    IF chars = <<>> THEN <<>> ELSE <<Value(Head(chars))>> \o Verbatim(Tail(chars))

\* the characters of a string inside json.Marshal's output: " is escaped,
\* ' is not
RECURSIVE jsonChars(_)
jsonChars(chars) ==
    IF chars = <<>> THEN <<>>
    ELSE (IF Head(chars) = "\"" THEN <<Escape>> ELSE <<>>)
           \o <<Value(Head(chars))>> \o jsonChars(Tail(chars))

\* json.Marshal of a value
RECURSIVE jsonMarshal(_)
RECURSIVE jsonMembers(_)
jsonMarshal(v) ==
    CASE v.kind = "string" -> <<Sql("\"")>> \o jsonChars(v.chars) \o <<Sql("\"")>>
      [] v.kind = "int" -> <<Value(Itoa(v.n))>>
      [] v.kind = "bool" -> <<Value(IF v.b THEN "true" ELSE "false")>>
      [] v.kind = "nil" -> <<Sql("null")>>
      [] v.kind \in {"map", "typedmap"} -> <<Sql("{")>> \o jsonMembers(v.conds) \o <<Sql("}")>>
      [] OTHER -> <<Sql("[]")>>

jsonMembers(conds) ==
    IF conds = <<>> THEN <<>>
    ELSE <<Sql("\""), Name(Head(conds).key), Sql("\":")>> \o jsonMarshal(Head(conds).cond)
           \o (IF Len(conds) > 1 THEN <<Sql(",")>> ELSE <<>>) \o jsonMembers(Tail(conds))

\* json.Unmarshal(json.Marshal(v), &map): the entries of a map, nothing for
\* any other value
jsonEntries(v) == IF v.kind \in {"map", "typedmap"} THEN v.conds ELSE <<>>

\* whereSlice: the containment probe of an array field; v.(string) panics on
\* any other type
whereSlice(en, k, v) ==
    IF v.kind # "string" THEN [panic |-> TRUE, query |-> <<>>]
    ELSE [panic |-> FALSE,
          query |->
            IF en = "MySQL"
            THEN <<Sql("JSON_CONTAINS("), Name(k), Sql(", CAST('[\"")>>
                   \o Verbatim(v.chars) \o <<Sql("\"]' AS JSON))")>>
            ELSE IF en = "PostgreSQL"
            THEN <<Name(k), Sql("::jsonb @> '[\"")>> \o Verbatim(v.chars) \o <<Sql("\"]'")>>
            ELSE <<Sql("EXISTS (SELECT 1 FROM json_each("), Name(k), Sql(") WHERE value = \"")>>
                   \o Verbatim(v.chars) \o <<Sql("\")")>>]

\* whereObject, MySQL and SQLite: the parts of one entry of the probed object
RECURSIVE extractLeaves(_, _, _)
extractLeaves(k, rangeKey, metadata) ==
    IF metadata = <<>> THEN <<>>
    ELSE << <<Sql("JSON_EXTRACT("), Name(k), Sql(", '$."), Name(rangeKey), Sql("."),
              Name(Head(metadata).key), Sql("') = ")>> \o jsonMarshal(Head(metadata).cond) >>
           \o extractLeaves(k, rangeKey, Tail(metadata))

RECURSIVE objectParts(_, _, _)
objectParts(en, k, rangeV) ==
    IF rangeV = <<>> THEN <<>>
    ELSE LET rangeKey == Head(rangeV).key
             rangeValue == Head(rangeV).cond
             quoted == <<Sql("\"")>> \o escapeDBString(rangeValue.chars) \o <<Sql("\"")>>
             parts ==
               IF en \in {"MySQL", "SQLite"}
               THEN IF rangeValue.kind = "string"
                    THEN << <<Sql("JSON_EXTRACT("), Name(k), Sql(", '$."), Name(rangeKey),
                              Sql("') = ")>> \o quoted >>
                    ELSE extractLeaves(k, rangeKey, jsonEntries(rangeValue))
               ELSE << <<Name(k), Sql("::jsonb @> '{\""), Name(rangeKey), Sql("\":")>>
                         \o (IF rangeValue.kind = "string" THEN quoted
                             ELSE jsonMarshal(rangeValue))
                         \o <<Sql("}'::jsonb")>> >>
         IN  parts \o objectParts(en, k, Tail(rangeV))

\* whereObject: the probe of an object field
whereObject(en, k, v) ==
    LET queryParts == objectParts(en, k, jsonEntries(v))
    IN  IF Len(queryParts) = 0 THEN <<>>
        ELSE IF Len(queryParts) > 1
        THEN <<Sql("(")>> \o Join(queryParts, " AND ") \o <<Sql(")")>>
        ELSE queryParts[1]

\* one call of tx.Where(query, binds)
WhereCall(query, binds) == [query |-> query, vars |-> binds]
Bind(varNum, value) == [name |-> VarName(varNum), value |-> value]

\* a variant that keeps only the variables of the latest call
MergeVarsLatestOnly(binds, variables) == variables

\* for key, value := range variables { tx.Vars[key] = value }
MergeVars(binds, variables) ==
    SelectSeq(binds, LAMBDA b : \A i \in DOMAIN variables : variables[i].name # b.name)
      \o variables

\* what a step of the compiler leaves behind: the Where calls made on tx,
\* the variable counter, whether it panicked, and the visited part of the
\* caller's tree as it is afterwards
Result(calls, varNum, panic, tree) ==
    [calls |-> calls, varNum |-> varNum, panic |-> panic, tree |-> tree]

\* the WhereClauses and Vars of a txAccumulator after the given calls
RECURSIVE Accumulate(_)
Accumulate(calls) ==
    IF calls = <<>> THEN [WhereClauses |-> <<>>, Vars |-> <<>>]
    ELSE LET acc == Accumulate(SubSeq(calls, 1, Len(calls) - 1))
             call == calls[Len(calls)]
         IN  [WhereClauses |-> Append(acc.WhereClauses, call.query),
              Vars |-> MergeVars(acc.Vars, call.vars)]

Comparators ==
    [k \in {"$gt", "$lt", "$gte", "$lte", "$ne"} |->
        CASE k = "$gt" -> " > " [] k = "$lt" -> " < " [] k = "$gte" -> " >= "
          [] k = "$lte" -> " <= " [] OTHER -> " != "]

\* mutant: the counter is not advanced between the elements
RECURSIVE inVarsNoAdvance(_, _, _)
inVarsNoAdvance(items, en, varNum) ==
    IF items = <<>> THEN <<>>
    ELSE <<Bind(varNum, formatCondition(Head(items), en))>> \o inVarsNoAdvance(Tail(items), en, varNum)

\* a variant that binds the elements in reverse order
RECURSIVE inVarsReversed(_, _, _)
inVarsReversed(items, en, varNum) ==
    IF items = <<>> THEN <<>>
    ELSE <<Bind(varNum, formatCondition(items[Len(items)], en))>>
           \o inVarsReversed(SubSeq(items, 1, Len(items) - 1), en, varNum + 1)

\* the variables of an $in list, one per element
RECURSIVE inVars(_, _, _)
inVars(items, en, varNum) ==
    IF items = <<>> THEN <<>>
    ELSE <<Bind(varNum, formatCondition(Head(items), en))>> \o inVars(Tail(items), en, varNum + 1)

\* mutant: the normalised map is stored back into the caller's tree
JSONRoundTripInPlace(condition) == [cc |-> Map(condition.conds), condition |-> Map(condition.conds)]

\* json.Marshal and json.Unmarshal of a map of another type give a new
\* map[string]interface{} cc; the caller's condition stays as it is
JSONRoundTrip(condition) == [cc |-> Map(condition.conds), condition |-> condition]

RECURSIVE processConditions(_, _, _, _)
RECURSIVE processWhereAnd(_, _, _)
RECURSIVE processWhereOr(_, _, _)
RECURSIVE andElements(_, _, _)
RECURSIVE orElements(_, _, _)

\* the body of the range loop for one entry
processEntry(key, condition, en, varNum, parentKey) ==
    LET panic == Result(<<>>, varNum, TRUE, condition)
        one(query, binds, n) == Result(<<WhereCall(query, binds)>>, n, FALSE, condition)
    IN  CASE key = "$and" -> processWhereAnd(condition, en, varNum)
          [] key = "$or" -> processWhereOr(condition, en, varNum)
          [] key \in DOMAIN Comparators ->
               IF parentKey = Nil THEN panic
               ELSE one(<<Name(parentKey), Sql(Comparators[key]), Ref(varNum)>>,
                        <<Bind(varNum, formatCondition(condition, en))>>, varNum + 1)
          [] key = "$exists" ->
               IF condition.kind # "bool" \/ parentKey = Nil THEN panic
               ELSE one(<<Name(parentKey),
                          Sql(IF condition.b THEN " IS NOT NULL" ELSE " IS NULL")>>,
                        <<>>, varNum)
          [] key = "$in" ->
               IF condition.kind # "list" \/ parentKey = Nil THEN panic
               ELSE LET binds == inVars(condition.items, en, varNum)
                    IN  one(<<Name(parentKey), Sql(" IN (")>>
                              \o Join([i \in DOMAIN binds |-> <<Ref(varNum + i - 1)>>], ",")
                              \o <<Sql(")")>>,
                            binds, varNum + Len(binds))
          [] key \in ArrayFields ->
               LET q == whereSlice(en, key, formatCondition(condition, en))
               IN  IF q.panic THEN panic ELSE one(q.query, <<>>, varNum)
          [] key \in ObjectFields ->
               one(whereObject(en, key, formatCondition(condition, en)), <<>>, varNum)
          [] condition.kind = "nil" -> one(<<Name(key), Sql(" IS NULL")>>, <<>>, varNum)
          [] condition.kind = "map" ->
               LET r == processConditions(condition.conds, en, varNum, key)
               IN  Result(r.calls, r.varNum, r.panic, Map(r.tree))
          [] condition.kind = "typedmap" ->
               LET n == JSONRoundTrip(condition)
                   r == processConditions(n.cc.conds, en, varNum, key)
               IN  Result(r.calls, r.varNum, r.panic, n.condition)
          [] OTHER ->
               one(<<Name(key), Sql(" = "), Ref(varNum)>>,
                   <<Bind(varNum, formatCondition(condition, en))>>, varNum + 1)

\* processConditions: for key, condition := range conditions
processConditions(conditions, en, varNum, parentKey) ==
    IF conditions = <<>> THEN Result(<<>>, varNum, FALSE, <<>>)
    ELSE LET key == Head(conditions).key
             first == processEntry(key, Head(conditions).cond, en, varNum, parentKey)
             rest == processConditions(Tail(conditions), en, first.varNum, parentKey)
         IN  IF first.panic
             THEN Result(first.calls, first.varNum, TRUE,
                         <<Entry(key, first.tree)>> \o Tail(conditions))
             ELSE Result(first.calls \o rest.calls, rest.varNum, rest.panic,
                         <<Entry(key, first.tree)>> \o rest.tree)

\* the elements of an $and, all compiled into one accumulator
andElements(elems, en, varNum) ==
    IF elems = <<>> THEN Result(<<>>, varNum, FALSE, <<>>)
    ELSE LET first == processConditions(Head(elems), en, varNum, Nil)
             rest == andElements(Tail(elems), en, first.varNum)
         IN  IF first.panic THEN Result(first.calls, first.varNum, TRUE, <<first.tree>> \o Tail(elems))
             ELSE Result(first.calls \o rest.calls, rest.varNum, rest.panic,
                         <<first.tree>> \o rest.tree)

\* processWhereAnd: condition.([]map[string]interface{}) panics on any
\* other type
processWhereAnd(condition, en, varNum) ==
    IF condition.kind # "maps" THEN Result(<<>>, varNum, TRUE, condition)
    ELSE LET r == andElements(condition.elems, en, varNum)
             accumulator == Accumulate(r.calls)
         IN  IF r.panic THEN Result(<<>>, r.varNum, TRUE, Maps(r.tree))
             ELSE Result(<<WhereCall(<<Sql(" ( ")>> \o Join(accumulator.WhereClauses, " AND ")
                                       \o <<Sql(" ) ")>>,
                                     accumulator.Vars)>>,
                         r.varNum, FALSE, Maps(r.tree))

\* the elements of an $or, each compiled into its own accumulator: the
\* calls returned are one per element, its clauses joined by AND
orElements(elems, en, varNum) ==
    IF elems = <<>> THEN Result(<<>>, varNum, FALSE, <<>>)
    ELSE LET first == processConditions(Head(elems), en, varNum, Nil)
             accumulator == Accumulate(first.calls)
             statement == WhereCall(Join(accumulator.WhereClauses, " AND "), accumulator.Vars)
             rest == orElements(Tail(elems), en, first.varNum)
         IN  IF first.panic THEN Result(<<>>, first.varNum, TRUE, <<first.tree>> \o Tail(elems))
             ELSE Result(<<statement>> \o rest.calls, rest.varNum, rest.panic,
                         <<first.tree>> \o rest.tree)

\* processWhereOr
processWhereOr(condition, en, varNum) ==
    IF condition.kind # "maps" THEN Result(<<>>, varNum, TRUE, condition)
    ELSE LET r == orElements(condition.elems, en, varNum)
             or == Accumulate(r.calls)
         IN  IF r.panic THEN Result(<<>>, r.varNum, TRUE, Maps(r.tree))
             ELSE Result(<<WhereCall(<<Sql(" ( (")>> \o Join(or.WhereClauses, ") OR (")
                                       \o <<Sql(") ) ")>>,
                                     or.Vars)>>,
                         r.varNum, FALSE, Maps(r.tree))

\* CustomWhere: varNum := 0; processConditions(c, tx, conditions, engine, &varNum, nil)
CustomWhere(conditions, en) == processConditions(conditions, en, 0, Nil)

(***************************************************************************)
(* Predicate trees the compiler is run on.                                 *)
(***************************************************************************)
Scalars == {IntV(7), StrV(<<"a", "'", "\"">>)}

Lists == UNION {[1..n -> Scalars] : n \in 0..MaxListLen}

\* conditions of one plain field
FieldConditions ==
    Scalars \cup {NilValue}
      \cup {Map(<<Entry(op, v)>>) : op \in DOMAIN Comparators, v \in Scalars}
      \cup {Map(<<Entry("$gte", IntV(7)), Entry("$lte", IntV(7))>>),
            TypedMap(<<Entry("$gt", IntV(7))>>)}
      \cup {Map(<<Entry("$exists", b)>>) : b \in {BoolV(TRUE), BoolV(FALSE), IntV(7)}}
      \cup {Map(<<Entry(op, List(l))>>) : op \in {"$in", "$nin"}, l \in Lists}
      \cup {Map(<<Entry("$in", IntV(7))>>)}

BasicEntries ==
    {Entry("amount", c) : c \in FieldConditions}
      \cup {Entry("created_at", Map(<<Entry("$gt", NullTime(v))>>)) : v \in BOOLEAN}
      \cup {Entry("tags", v) : v \in Scalars}
      \cup {Entry("meta", Map(<<Entry("k", v)>>)) : v \in Scalars}
      \cup {Entry("meta", Map(<<Entry("k", Map(<<Entry("kk", StrV(<<"'", "\"">>))>>))>>)),
            Entry("meta", Map(<<Entry("k", StrV(<<"a">>)), Entry("j", StrV(<<"b">>))>>)),
            Entry("meta", StrV(<<"a">>)),
            Entry("$gt", IntV(7))}

\* the maps listed under $and and $or
InnerConds ==
    {<<Entry("amount", Map(<<Entry("$lte", IntV(7))>>))>>,
     <<Entry("value", StrV(<<"a">>))>>,
     <<Entry("amount", Map(<<Entry("$in", List(<<IntV(7), StrV(<<"a">>)>>))>>))>>}

LogicalEntries ==
    {Entry(op, Maps(l)) : op \in {"$and", "$or"},
                          l \in UNION {[1..n -> InnerConds] : n \in 0..MaxListLen}}
      \cup {Entry("$and", IntV(7))}
      \cup {Entry(op, List(<<Map(<<Entry("value", StrV(<<"a">>))>>)>>)) :
                op \in {"$and", "$or"}}

\* a connective inside a connective
NestedEntries ==
    {Entry(op, Maps(<<a, <<Entry(op2, Maps(<<b, c>>))>>>>)) :
        op \in {"$and", "$or"}, op2 \in {"$and", "$or"},
        a \in InnerConds, b \in InnerConds, c \in {<<Entry("value", StrV(<<"a">>))>>}}

Trees ==
    {<<e>> : e \in BasicEntries \cup LogicalEntries \cup NestedEntries}
      \cup {t \in {<<a, b>> : a \in BasicEntries, b \in BasicEntries \cup LogicalEntries}
                    \cup {<<b, a>> : a \in BasicEntries, b \in LogicalEntries} :
              t[1].key # t[2].key}

\* the orders in which a range loop may visit the entries of a map
Orders(conditions) ==
    {[i \in DOMAIN conditions |-> conditions[p[i]]] :
        p \in {q \in [DOMAIN conditions -> DOMAIN conditions] :
                  \A i \in DOMAIN conditions, j \in DOMAIN conditions : q[i] = q[j] => i = j}}

\* a caller about to compile a tree from a counter value
CompileInit ==
    /\ engine \in SQLEngines
    /\ mongoTransactions = FALSE
    /\ autoMigrate = FALSE
    /\ migratedModels = <<>>
    /\ tx = NoTransaction
    /\ drv = NoBackend
    /\ hist = FreshHist(FALSE)
    /\ inFn = FALSE
    /\ ConcIdle
    /\ \E conditions \in Trees, varNum \in 0..MaxStartVar :
         last = [InitLast EXCEPT !.op = "conditions",
                                 !.arg = [conditions |-> conditions, varNum |-> varNum]]

\* processConditions(client, tx, conditions, engine, &varNum, nil) on the
\* client's engine
CallProcessConditions ==
    /\ last.op = "conditions"
    /\ LET r == processConditions(last.arg.conditions, engine, last.arg.varNum, Nil)
       IN  last' = Call("processConditions",
                        [conditions |-> last.arg.conditions, varNum |-> last.arg.varNum,
                         result |-> r],
                        IF r.panic THEN Panic ELSE Nil, <<>>)
    /\ UNCHANGED <<clientVars, concVars, migratedModels, tx, drv, hist, inFn>>

CompileSpec == CompileInit /\ [][CallProcessConditions]_vars

\* the query operations on a SQL client
QueryInit == ClientInit /\ engine \in SQLEngines /\ autoMigrate = FALSE

\* one query operation on the fresh client
QueryNext ==
    \/ last.op = "none" /\ CallGetModel
    \/ last.op = "none" /\ CallGetModels
    \/ last.op = "none" /\ CallGetModelCount
    \/ last.op = "none" /\ CallGetModelsAggregate

QuerySpec == QueryInit /\ [][QueryNext]_vars

\* one GetModels on a fresh client of any engine
ParamsNext == last.op = "none" /\ CallGetModels

ParamsSpec == ClientInit /\ [][ParamsNext]_vars

(***************************************************************************)
(* Properties of the condition compiler.                                   *)
(***************************************************************************)
Compiled == last.op = "processConditions" /\ last.ret = Nil

\* the variable references of the fragments of the given Where calls
RECURSIVE References(_)
References(calls) ==
    IF calls = <<>> THEN <<>>
    ELSE SelectSeq(Head(calls).query, LAMBDA t : t.t = "ref") \o References(Tail(calls))

\* the number of variables bound by the given Where calls
RECURSIVE Allocated(_)
Allocated(calls) ==
    IF calls = <<>> THEN 0 ELSE Len(Head(calls).vars) + Allocated(Tail(calls))

\* C15: after a compilation from counter s that allocated k variables, the
\* variables referenced in the emitted fragments are exactly @var s ..
\* @var s+k-1, each referenced exactly once; every variable a fragment
\* references is bound in the bind map delivered with that fragment, also
\* when the fragment was gathered by nested $and / $or accumulators; and
\* the counter ends at s + k.
C15_VariablesDense ==
    Compiled =>
        LET r == last.arg.result
            s == last.arg.varNum
            k == Allocated(r.calls)
            refs == References(r.calls)
        IN  /\ r.varNum = s + k
            /\ Len(refs) = k
            /\ \A n \in s..(s + k - 1) :
                   Cardinality({i \in DOMAIN refs : refs[i] = Ref(n)}) = 1
            /\ \A c \in DOMAIN r.calls :
                   /\ \A i \in DOMAIN r.calls[c].query :
                          r.calls[c].query[i].t = "ref" =>
                              \E b \in DOMAIN r.calls[c].vars :
                                  "@" \o r.calls[c].vars[b].name = r.calls[c].query[i].s
                   /\ \A b1 \in DOMAIN r.calls[c].vars, b2 \in DOMAIN r.calls[c].vars :
                          r.calls[c].vars[b1].name = r.calls[c].vars[b2].name => b1 = b2

\* a connective inside a connective, next to a field, compiled from counter
\* 1: three variables in the one fragment of the connective
C15_Witness ==
    /\ Compiled
    /\ last.arg.varNum = 1
    /\ \E i \in DOMAIN last.arg.conditions :
          /\ last.arg.conditions[i].key = "$or"
          /\ last.arg.conditions[i].cond.kind = "maps"
          /\ Len(last.arg.conditions[i].cond.elems) = 2
          /\ Len(last.arg.conditions[i].cond.elems[2]) = 1
          /\ last.arg.conditions[i].cond.elems[2][1].key = "$and"
    /\ \E c \in DOMAIN last.arg.result.calls :
          /\ Len(References(<<last.arg.result.calls[c]>>)) >= 3
          /\ Len(last.arg.result.calls[c].vars) >= 3
    /\ last.arg.result.varNum >= 4

\* TestCustomWhere: the fragments the repository's tests expect (not a claim)
TestCustomWhere ==
    LET lt == <<Entry("amount", Map(<<Entry("$lt", IntV(503))>>))>>
        gt == <<Entry("amount", Map(<<Entry("$gt", IntV(203))>>))>>
        and == CustomWhere(<<Entry("$and", Maps(<<lt, gt>>))>>, "PostgreSQL")
        or == CustomWhere(<<Entry("$or", Maps(<<lt, <<Entry("$and", Maps(<<gt, lt>>))>>>>))>>, "MySQL")
    IN  /\ Len(and.calls) = 1
        /\ Render(and.calls[1].query) = " ( amount < @var0 AND amount > @var1 ) "
        /\ and.calls[1].vars = <<[name |-> "var0", value |-> IntV(503)],
                                  [name |-> "var1", value |-> IntV(203)]>>
        /\ Render(or.calls[1].query)
              = " ( (amount < @var0) OR ( ( amount > @var1 AND amount < @var2 ) ) ) "
        /\ Render(CustomWhere(<<Entry("amount", Map(<<Entry("$in", List(<<IntV(1), IntV(2)>>))>>))>>,
                               "SQLite").calls[1].query) = "amount IN (@var0,@var1)"

EngineNeutral(conditions) ==
    \A i \in DOMAIN conditions :
        conditions[i].key \notin ArrayFields \cup ObjectFields \cup {"created_at"}

\* C17 as stated: a tree of comparators, $in / $nin, $exists, equalities and
\* connectives over non-timestamp scalars compiles, from the same counter,
\* to the same fragments, numbering and bind maps for MySQL, PostgreSQL and
\* SQLite, whatever order each compilation visits the entries of a map in.
C17_Original ==
    (Compiled /\ EngineNeutral(last.arg.conditions)) =>
        \A en \in SQLEngines, visited \in Orders(last.arg.conditions) :
            LET r == processConditions(visited, en, last.arg.varNum, Nil)
            IN  /\ r.calls = last.arg.result.calls
                /\ r.varNum = last.arg.result.varNum

\* C17: such a tree compiles, from the same counter and visiting the entries
\* of each map in the same order, to the same fragments, numbering and bind
\* maps for MySQL, PostgreSQL and SQLite; a type-shape violation panics on
\* all three.
C17_EnginesAgree ==
    (last.op = "processConditions" /\ EngineNeutral(last.arg.conditions)) =>
        \A en \in SQLEngines :
            LET r == processConditions(last.arg.conditions, en, last.arg.varNum, Nil)
            IN  /\ r.calls = last.arg.result.calls
                /\ r.varNum = last.arg.result.varNum
                /\ r.panic = last.arg.result.panic

\* a comparator on a string next to a connective with an $in list, on SQLite
C17_Witness ==
    /\ Compiled
    /\ engine = "SQLite"
    /\ EngineNeutral(last.arg.conditions)
    /\ Len(last.arg.conditions) = 2
    /\ last.arg.conditions[1] = Entry("amount", Map(<<Entry("$ne", StrV(<<"a", "'", "\"">>))>>))
    /\ last.arg.conditions[2].key = "$and"
    /\ Allocated(last.arg.result.calls) >= 3
    /\ Len(last.arg.result.calls) = 2

\* the entries of the tree that are a field with a $nin list
NotInEntries(conditions) ==
    {i \in DOMAIN conditions :
        /\ conditions[i].key = "amount"
        /\ conditions[i].cond.kind = "map"
        /\ Len(conditions[i].cond.conds) = 1
        /\ conditions[i].cond.conds[1].key = "$nin"
        /\ conditions[i].cond.conds[1].cond.kind = "list"}

\* C18 as stated: a field with $nin over an n-element list emits the single
\* fragment "<field> NOT IN (@var a,...,@var a+n-1)" with one variable per
\* element bound in list order, and the counter advances by n (here: by n
\* when the field is the only entry of the tree), on every SQL engine.
C18_NotIn ==
    Compiled =>
        \A i \in NotInEntries(last.arg.conditions) :
            LET items == last.arg.conditions[i].cond.conds[1].cond.items
                r == last.arg.result
            IN  /\ \E c \in DOMAIN r.calls, a \in last.arg.varNum..r.varNum :
                       /\ r.calls[c].vars = inVars(items, engine, a)
                       /\ r.calls[c].query =
                            <<Name("amount"), Sql(" NOT IN (")>>
                              \o Join([j \in 1..Len(items) |-> <<Ref(a + j - 1)>>], ",")
                              \o <<Sql(")")>>
                /\ Len(last.arg.conditions) = 1 => r.varNum = last.arg.varNum + Len(items)

\* what the code does with $nin (not a claim: a cross-check): the key is
\* taken for a field name and the whole list is bound to one variable
C18_NotInIsEquality ==
    (Compiled /\ Len(last.arg.conditions) = 1) =>
        \A i \in NotInEntries(last.arg.conditions) :
            /\ Len(last.arg.result.calls) = 1
            /\ Render(last.arg.result.calls[1].query) = "$nin = @var" \o Itoa(last.arg.varNum)
            /\ last.arg.result.calls[1].vars =
                  <<Bind(last.arg.varNum, last.arg.conditions[i].cond.conds[1].cond)>>
            /\ last.arg.result.varNum = last.arg.varNum + 1

QueryOperations == {"GetModel", "GetModels", "GetModelCount", "GetModelsAggregate"}

\* C19 as stated: when the compilation of the conditions panics inside a
\* query operation, the operation catches the panic and returns an error to
\* its caller; the panic never propagates.
C19_PanicIsCaught ==
    (last.op \in QueryOperations /\ last.arg.cw = "panic") =>
        last.ret \notin {Panic, Nil}

\* what the code does (not a claim: a cross-check): the panic leaves the
\* operation before any driver call
C19_PanicPropagates ==
    (last.op \in QueryOperations /\ last.arg.cw = "panic") =>
        last.ret = Panic /\ last.calls = <<>>

\* every ' and " of a caller's value in the fragment has a backslash put in
\* front of it
Escaped(query) ==
    \A i \in DOMAIN query :
        (query[i].t = "value" /\ query[i].s \in {"'", "\""}) =>
            (i > 1 /\ query[i - 1] = Escape)

\* C20 as stated: no character of a caller-supplied value reaches an emitted
\* fragment unescaped: values are bound to variables, and where they are
\* written into the fragment (array-field and object-field probes) every '
\* and " has a backslash in front of it.
C20_ValuesEscaped ==
    Compiled => \A c \in DOMAIN last.arg.result.calls : Escaped(last.arg.result.calls[c].query)

\* the string leaves at the first level of an object-field probe are
\* escaped (not a claim: a cross-check)
C20_ObjectStringsEscaped ==
    (Compiled /\ Len(last.arg.conditions) = 1 /\ last.arg.conditions[1].key = "meta"
       /\ last.arg.conditions[1].cond.kind = "map"
       /\ \A i \in DOMAIN last.arg.conditions[1].cond.conds :
              last.arg.conditions[1].cond.conds[i].cond.kind = "string") =>
        /\ Len(last.arg.result.calls) = 1
        /\ Escaped(last.arg.result.calls[1].query)
        /\ \E i \in DOMAIN last.arg.result.calls[1].query :
               last.arg.result.calls[1].query[i].t = "value"

(***************************************************************************)
(* Properties of the fetches, of paging and of the caller's QueryParams.   *)
(***************************************************************************)
Fetches == {"GetModel", "GetModels"}

\* the driver query of the last fetch was issued
Queried == last.op \in Fetches /\ Len(last.calls) = 1

GivenParams ==
    IF last.arg.given.isNil THEN QueryParams(I64(0), I64(0), "", <<>>)
    ELSE last.arg.given

\* the page size of the specification: 20 when page > 0 and none was given
EffectivePageSize(q) ==
    IF Positive64(q.Page) /\ q.PageSize = I64(0) THEN I64(defaultPageSize)
    ELSE q.PageSize

\* a * b over the integers, for b with b.hi = 0
Product(a, b) == [hi |-> a.hi * b.lo, lo |-> a.lo * b.lo]

PagingAsSpecified(q) ==
    LET size == EffectivePageSize(q)
        both == Positive64(q.Page) /\ Positive64(size)
    IN  /\ last.arg.paged <=> both
        /\ both => /\ last.arg.limit = size
                   /\ last.arg.offset = Product([q.Page EXCEPT !.lo = @ - 1], size)
        /\ q.Page = I64(0) => ~last.arg.paged
        /\ ~Negative64(last.arg.offset)

\* C22: for page >= 0 and pageSize >= 0, GetModels on a SQL engine applies
\* Limit = pageSize and Offset = (page - 1) * pageSize exactly when page > 0
\* and the effective page size (20 when page > 0 and pageSize = 0) is
\* positive; with page = 0 it applies neither; the offset applied is never
\* negative
C22_Paging ==
    (last.op = "GetModels"
        /\ ~Negative64(GivenParams.Page) /\ ~Negative64(GivenParams.PageSize)) =>
        PagingAsSpecified(GivenParams)

\* what the code does (not a claim: a cross-check): the paging is as
\* specified whenever (page - 1) * pageSize is below 2^62
C22_PagingInRange ==
    (last.op = "GetModels"
        /\ ~Negative64(GivenParams.Page) /\ ~Negative64(GivenParams.PageSize)
        /\ GivenParams.Page.hi = 0) =>
        PagingAsSpecified(GivenParams)

\* C30: GetModels normalises the caller's QueryParams in place, on every
\* engine and also when it returns ErrUnsupportedEngine: after the call the
\* object has SortDirection in lower case and PageSize = 20 if Page > 0 and
\* PageSize < 1; Page, OrderByField and any other PageSize are unchanged; for
\* a nil QueryParams the caller's nil stays nil
C30_ParamsInPlace ==
    last.op = "GetModels" =>
        LET g == last.arg.given
            p == last.arg.params
        IN  IF g.isNil THEN p = NilParams
            ELSE /\ ~p.isNil
                 /\ Len(p.SortDirection) = Len(g.SortDirection)
                 /\ \A i \in DOMAIN p.SortDirection :
                        /\ p.SortDirection[i].c = g.SortDirection[i].c
                        /\ ~p.SortDirection[i].upper
                 /\ p.PageSize = IF Positive64(g.Page) /\ ~Positive64(g.PageSize)
                                  THEN I64(20) ELSE g.PageSize
                 /\ p.Page = g.Page
                 /\ p.OrderByField = g.OrderByField

C30_Witness ==
    /\ last.op = "GetModels"
    /\ engine = "None"
    /\ last.ret = "ErrUnsupportedEngine"
    /\ ~last.arg.given.isNil
    /\ \E i \in DOMAIN last.arg.given.SortDirection : last.arg.given.SortDirection[i].upper
    /\ last.arg.given.PageSize = I64(0)
    /\ last.arg.params.PageSize = I64(20)

NoHandle(t) == t.present /\ ~t.sqlTx /\ ~t.mongoTx

\* C27: on a Transaction without a backend handle Commit and Rollback return
\* nil, call no driver and change nothing; such a Transaction always has
\* committed = false, rowsAffected = 0 and CanCommit() = false
C27_NoHandleNoOp ==
    /\ NoHandle(tx) =>
           /\ ~tx.committed
           /\ tx.rowsAffected = 0
           /\ ~CanCommit(tx)
    /\ (last.op \in {"Commit", "Rollback"} /\ NoHandle(last.pre.tx)) =>
           /\ last.ret = Nil
           /\ last.calls = <<>>
           /\ tx = last.pre.tx
           /\ drv = last.pre.drv

\* a Commit after a Rollback, both on a Transaction without handle
C27_Witness ==
    /\ last.op = "Commit"
    /\ NoHandle(last.pre.tx)
    /\ last.pre.hist.rolledBack
    /\ last.ret = Nil

\* the operations that work on the Transaction the caller already holds
OnHeldTransaction == {"Commit", "Rollback", "SaveModel", "NewTx"}

\* C29: in every reachable state of a Transaction, committed implies that it
\* holds a backend handle and that a driver commit on it has succeeded;
\* rowsAffected is nonzero only if committed; no operation on the
\* Transaction takes committed from true to false; Rollback changes neither
\* committed nor rowsAffected
C29_TransactionInvariants ==
    /\ tx.committed => (tx.present /\ HasHandle(tx) /\ hist.nCommitOK >= 1)
    /\ tx.rowsAffected # 0 => tx.committed
    /\ (last.op \in OnHeldTransaction /\ last.pre.tx.committed) => tx.committed
    /\ last.op = "Rollback" =>
           /\ tx.committed = last.pre.tx.committed
           /\ tx.rowsAffected = last.pre.tx.rowsAffected

\* a Rollback of a committed Transaction with rows affected
C29_Witness ==
    /\ last.op = "Rollback"
    /\ last.pre.tx.committed
    /\ last.pre.tx.rowsAffected > 0
    /\ tx.committed

(***************************************************************************)
(* Further properties of the registry of migrated models.                  *)
(***************************************************************************)
\* positions of the argument list whose type is already recorded or occurs
\* earlier in the same list
RepeatedAt(models, recorded) ==
    {i \in DOMAIN models :
        \/ HasMigratedModel(recorded, models[i])
        \/ \E j \in 1..(i - 1) : models[j] = models[i]}

Least(S) == CHOOSE i \in S : \A j \in S : i <= j

\* the registry after a call of an enabled Migrate, with err the error
\* returned for a repeated type
RegistryAfterMigrate(err) ==
    (last.op = "AutoMigrateDatabase" /\ autoMigrate /\ engine # "None") =>
        LET models == last.arg.models
            before == last.pre.migrated
            rep == RepeatedAt(models, before)
        IN  /\ Len(migratedModels) >= Len(before)
            /\ SubSeq(migratedModels, 1, Len(before)) = before
            /\ \A i, j \in DOMAIN migratedModels :
                   migratedModels[i] = migratedModels[j] => i = j
            /\ IF rep # {}
               THEN /\ last.ret = err
                    /\ last.calls = <<>>
                    /\ migratedModels = before \o SubSeq(models, 1, Least(rep) - 1)
               ELSE /\ migratedModels = before \o models
                    /\ Len(last.calls) = 1
                    /\ last.ret = last.calls[1].r

\* C28: Migrate records the types one at a time in argument order before any
\* driver migration and never takes one back: when Migrate(m1..mk) fails
\* with AlreadyMigrated at mi (a type recorded before or repeated in the
\* call), m1..m(i-1) stay recorded and no driver migration is issued; a type
\* stays recorded when the driver migration fails, so a later Migrate of it
\* fails with AlreadyMigrated; the registry never holds a type twice and
\* never shrinks
C28_Registry == RegistryAfterMigrate(errModelAlreadyMigrated)

\* C28 with the error the code builds (not a claim: a cross-check)
C28_RegistryKept == RegistryAfterMigrate(AlreadyMigratedText)

(***************************************************************************)
(* Further properties of the condition compiler.                           *)
(***************************************************************************)
\* the text "@var a,@var a+1,...,@var a+n-1"
RECURSIVE VarList(_, _)
VarList(a, n) ==
    IF n = 0 THEN ""
    ELSE "@var" \o Itoa(a) \o (IF n = 1 THEN "" ELSE "," \o VarList(a + 1, n - 1))

\* the one Where call of field IN list compiled from counter a is as
\* specified
InAsSpecified(call, field, items, en, a) ==
    /\ Render(call.query) = field \o " IN (" \o VarList(a, Len(items)) \o ")"
    /\ Len(call.vars) = Len(items)
    /\ \A i \in DOMAIN items :
           call.vars[i] = [name |-> "var" \o Itoa(a + i - 1),
                           value |-> formatCondition(items[i], en)]

IsInEntry(entry) ==
    /\ entry.key \notin ArrayFields \cup ObjectFields \cup {"$and", "$or"}
    /\ entry.cond.kind = "map"
    /\ Len(entry.cond.conds) = 1
    /\ entry.cond.conds[1].key = "$in"
    /\ entry.cond.conds[1].cond.kind = "list"

RECURSIVE ElementResults(_, _, _)
ElementResults(elems, en, varNum) ==
    IF elems = <<>> THEN <<>>
    ELSE LET first == processConditions(Head(elems), en, varNum, Nil)
         IN  <<first>> \o ElementResults(Tail(elems), en, first.varNum)

RECURSIVE Queries(_)
Queries(calls) ==
    IF calls = <<>> THEN <<>> ELSE <<Head(calls).query>> \o Queries(Tail(calls))

RECURSIVE Flatten(_)
Flatten(seqs) == IF seqs = <<>> THEN <<>> ELSE Head(seqs) \o Flatten(Tail(seqs))

BindsOf(calls) ==
    UNION {{calls[c].vars[b] : b \in DOMAIN calls[c].vars} : c \in DOMAIN calls}

IsConnective(entry) == entry.key \in {"$and", "$or"} /\ entry.cond.kind = "maps"

\* the one Where call of a connective compiled from counter a
ConnectiveAsSpecified(calls, entry, en, a) ==
    LET rs == ElementResults(entry.cond.elems, en, a)
        fragments == [i \in DOMAIN rs |-> Queries(rs[i].calls)]
        refs == References(calls)
    IN  /\ Len(calls) = 1
        /\ calls[1].query =
              IF entry.key = "$and"
              THEN <<Sql(" ( ")>> \o Join(Flatten(fragments), " AND ") \o <<Sql(" ) ")>>
              ELSE <<Sql(" ( (")>>
                     \o Join([i \in DOMAIN rs |-> Join(fragments[i], " AND ")], ") OR (")
                     \o <<Sql(") ) ")>>
        /\ {calls[1].vars[b] : b \in DOMAIN calls[1].vars}
              = UNION {BindsOf(rs[i].calls) : i \in DOMAIN rs}
        /\ Len(calls[1].vars) = Len(refs)
        /\ refs = [i \in 1..Len(refs) |-> Ref(a + i - 1)]
        /\ \A i \in DOMAIN rs :
               (Len(entry.cond.elems[i]) = 1 /\ IsConnective(entry.cond.elems[i][1])) =>
                   Len(rs[i].calls) = 1

\* C25: an $and or $or at any depth contributes exactly one fragment to its
\* enclosing accumulator, " ( a AND b ) " or " ( (a) OR (b) ) " over the
\* fragments of its elements, delivered with the union of the binds of its
\* descendants, the variables numbered in the order of the elements; a
\* top-level $and / $or makes exactly one Where call
C25_ConnectiveOneFragment ==
    Compiled =>
        \A i \in DOMAIN last.arg.conditions :
            IsConnective(last.arg.conditions[i]) =>
                LET before == processConditions(SubSeq(last.arg.conditions, 1, i - 1),
                                                engine, last.arg.varNum, Nil)
                    upTo == processConditions(SubSeq(last.arg.conditions, 1, i),
                                              engine, last.arg.varNum, Nil)
                IN  /\ Len(upTo.calls) = Len(before.calls) + 1
                    /\ SubSeq(last.arg.result.calls, 1, Len(upTo.calls)) = upTo.calls
                    /\ ConnectiveAsSpecified(<<upTo.calls[Len(upTo.calls)]>>,
                                             last.arg.conditions[i], engine, before.varNum)

\* an $or whose second element is an $and, compiled from counter 1
C25_Witness ==
    /\ Compiled
    /\ last.arg.varNum = 1
    /\ Len(last.arg.conditions) = 1
    /\ last.arg.conditions[1].key = "$or"
    /\ IsConnective(last.arg.conditions[1])
    /\ Len(last.arg.conditions[1].cond.elems) = 2
    /\ Len(last.arg.conditions[1].cond.elems[2]) = 1
    /\ IsConnective(last.arg.conditions[1].cond.elems[2][1])
    /\ last.arg.conditions[1].cond.elems[2][1].key = "$and"
    /\ Len(last.arg.result.calls) = 1
    /\ Render(last.arg.result.calls[1].query)
          = " ( (value = @var1) OR ( ( amount <= @var2 AND value = @var3 ) ) ) "
    /\ Len(last.arg.result.calls[1].vars) = 3

\* a value as json.Unmarshal into interface{} builds it: a number, a string,
\* a bool, nil, a []interface{} or a map[string]interface{} of such values
RECURSIVE JSONDecoded(_)
JSONDecoded(v) ==
    CASE v.kind \in {"int", "string", "bool", "nil"} -> TRUE
      [] v.kind = "list" -> \A i \in DOMAIN v.items : JSONDecoded(v.items[i])
      [] v.kind = "map" -> \A i \in DOMAIN v.conds : JSONDecoded(v.conds[i].cond)
      [] OTHER -> FALSE

\* C26 as stated: processConditions on a SQL engine, from counter 0 and
\* without parent field, does not panic for any JSON-decoded conditions map,
\* among them maps with a comparator, $exists or $in at the top level, maps
\* whose $and / $or value is a decoded array, and maps with unknown keys;
\* the counter is not negative afterwards
C26_NoPanicOnDecodedJSON ==
    (last.op = "processConditions" /\ last.arg.varNum = 0
        /\ JSONDecoded(Map(last.arg.conditions))) =>
        /\ ~last.arg.result.panic
        /\ last.arg.result.varNum >= 0

\* what the code does (not a claim: a cross-check): a comparator at the top
\* level and a connective over a decoded array panic
C26_TopLevelOperatorPanics ==
    (last.op = "processConditions" /\ Len(last.arg.conditions) = 1
        /\ \/ last.arg.conditions[1].key \in DOMAIN Comparators
           \/ /\ last.arg.conditions[1].key \in {"$and", "$or"}
              /\ last.arg.conditions[1].cond.kind = "list") =>
        last.arg.result.panic

====
